---------------------------- MODULE Spec2Model ----------------------------
(***************************************************************************)
(* Model of the per-session sandbox manager: the socket/HTTP routing layer *)
(* (index.ts), ContainerService and DockerManager, together with the parts *)
(* of the container runtime and of the host file system they act on.       *)
(*                                                                         *)
(* Strings are sequences of characters; every character is a one-letter    *)
(* string, except NotFoundPhrase, which stands for the run of printable    *)
(* characters "No such file or directory".                                 *)
(***************************************************************************)
EXTENDS Naturals, Sequences, FiniteSets, TLC

VARIABLES
    socketUserMap,   \* index.ts: socket id -> user id
    userSocketMap,   \* index.ts: user id -> socket id
    connected,       \* sockets whose client is connected
    closure,         \* per connection: socket id -> [userId, containerReady]
    emitted,         \* events sent to clients: {<<socket id, event>>}
    userContainers,  \* DockerManager.userContainers: user id -> container id
    userShells,      \* DockerManager.userShells: user id -> shell stream
    containers,      \* runtime: container id -> [name, state, bind]
    shellEnded,      \* shell streams on which end() was called
    hostFiles,       \* host file system: host path -> (file path -> file)
    calls,           \* asynchronous calls awaiting the runtime
    finished,        \* call id -> outcome of the calls that returned
    nextCall,        \* number of calls submitted so far
    budget,          \* how many more events of each kind the environment sends
    terminal,        \* shell streams: listeners, input written, output produced
    evaluated,       \* a pure function applied to an input, outside the server
    timers,          \* setTimeout callbacks that have not run yet
    phase            \* how far the start-up of the process has come

vars == <<socketUserMap, userSocketMap, connected, closure, emitted,
          userContainers, userShells, containers, shellEnded, hostFiles,
          calls, finished, nextCall, budget, terminal, evaluated, timers,
          phase>>

-----------------------------------------------------------------------------
(* Bounds of the model                                                     *)

MaxConnections == 2   \* connections accepted
MaxEvents == 3        \* connections, socket events and HTTP requests received
MaxBusyEvents == 4    \* the same, of the busier server
MaxPathLen == 4       \* length of the paths of the round trip
MaxUsers == 1         \* user ids a direct caller of DockerManager passes
MaxApiCalls == 3      \* calls of a caller that does not await them
MaxAwaitedCalls == 4  \* calls of a caller that awaits each of them
MaxChunks == 2        \* chunks the shells produce
MaxContentLen == 3      \* length of the contents that are cleaned
MaxOldContainers == 2   \* containers an earlier run has left
MaxItems == 3           \* raw entries in a list given to toTree

-----------------------------------------------------------------------------
(* Strings                                                                 *)

NotFoundPhrase == "No such file or directory"

StartsWith(s, pre) ==
    /\ Len(pre) <= Len(s)
    /\ SubSeq(s, 1, Len(pre)) = pre

EndsWith(s, suf) ==
    /\ Len(suf) <= Len(s)
    /\ SubSeq(s, Len(s) - Len(suf) + 1, Len(s)) = suf

OccursAt(s, sub, i) ==
    /\ i + Len(sub) - 1 <= Len(s)
    /\ SubSeq(s, i, i + Len(sub) - 1) = sub

Includes(s, sub) == \E i \in 1..(Len(s) + 1) : OccursAt(s, sub, i)

\* String.prototype.replace with a string pattern: the first occurrence only.
ReplaceFirst(s, from, to) ==
    IF ~Includes(s, from) THEN s
    ELSE LET i == CHOOSE k \in 1..Len(s) :
                      /\ OccursAt(s, from, k)
                      /\ \A j \in 1..(k - 1) : ~OccursAt(s, from, j)
         IN  SubSeq(s, 1, i - 1) \o to \o SubSeq(s, i + Len(from), Len(s))

RECURSIVE Filter(_, _)
Filter(s, keep) ==
    IF s = <<>> THEN <<>>
    ELSE (IF Head(s) \in keep THEN <<Head(s)>> ELSE <<>>) \o Filter(Tail(s), keep)

-----------------------------------------------------------------------------
(* Path repair                                                             *)

extensionMap ==
    << << <<".", "j">>,           <<".", "j", "s">> >>,
       << <<".", "t">>,           <<".", "t", "s">> >>,
       << <<".", "p">>,           <<".", "p", "y">> >>,
       << <<".", "c">>,           <<".", "c", "p", "p">> >>,
       << <<".", "h">>,           <<".", "h", "p", "p">> >>,
       << <<".", "j", "a">>,      <<".", "j", "a", "v", "a">> >>,
       << <<".", "p", "h">>,      <<".", "p", "h", "p">> >>,
       << <<".", "r">>,           <<".", "r", "b">> >>,
       << <<".", "g">>,           <<".", "g", "o">> >>,
       << <<".", "r", "u">>,      <<".", "r", "u", "s", "t">> >>,
       << <<".", "s", "w">>,      <<".", "s", "w", "i", "f", "t">> >>,
       << <<".", "k">>,           <<".", "k", "t">> >>,
       << <<".", "s">>,           <<".", "s", "h">> >>,
       << <<".", "h", "t">>,      <<".", "h", "t", "m", "l">> >>,
       << <<".", "c", "s">>,      <<".", "c", "s", "s">> >>,
       << <<".", "j", "s", "o">>, <<".", "j", "s", "o", "n">> >>,
       << <<".", "x">>,           <<".", "x", "m", "l">> >>,
       << <<".", "m">>,           <<".", "m", "d">> >>,
       << <<".", "y">>,           <<".", "y", "m", "l">> >>,
       << <<".", "d", "o">>,      <<".", "d", "o", "c", "k", "e", "r", "f", "i", "l", "e">> >> >>

\* The loop over Object.entries(extensionMap): the first entry that matches.
fixIncompleteExtension(filePath) ==
    LET Hit(i) == /\ EndsWith(filePath, extensionMap[i][1])
                  /\ ~EndsWith(filePath, extensionMap[i][2])
        hits == {i \in 1..Len(extensionMap) : Hit(i)}
    IN  IF hits = {} THEN filePath
        ELSE LET i == CHOOSE k \in hits : \A j \in hits : k <= j
             IN  ReplaceFirst(filePath, extensionMap[i][1], extensionMap[i][2])

-----------------------------------------------------------------------------
(* Content cleaning                                                        *)

\* The characters of 0x20-0x7E that the model's strings are built from.
PrintableChars ==
    {"a", "b", "c", "i", "j", "m", "n", "p", "r", "s", "t", "y", "1", "{", "}",
     " ", ".", "/", "(", ")", NotFoundPhrase, "PKG", "\"", "\\u00e9"}

\* "\\u00e9" stands for the six characters of that JSON escape sequence, and
\* "U+00E9" for the character it denotes, which is outside 0x20-0x7E.
EscapedEAcute == "\\u00e9"

EAcute == "U+00E9"

\* JSON.parse / JSON.stringify(v, null, 2) on the texts that "1", ".", "{",
\* "}", "a", "PKG", the quote, the escape sequence and white space can form:
\* a number of digits "1", an object without members, or a string literal.
\* "PKG" stands for the member list of the default manifest, as stringify
\* prints it.
JsonWhitespace == {" ", "\n", "\t", "\r"}

RECURSIVE TrimLeft(_)
TrimLeft(s) ==
    IF s # <<>> /\ Head(s) \in JsonWhitespace THEN TrimLeft(Tail(s)) ELSE s

RECURSIVE TrimRight(_)
TrimRight(s) ==
    IF s # <<>> /\ s[Len(s)] \in JsonWhitespace
    THEN TrimRight(SubSeq(s, 1, Len(s) - 1)) ELSE s

Trim(s) == TrimRight(TrimLeft(s))

\* digits, optionally followed by a fraction: 1, 11, 1.1, 11.11, ...
IsJsonNumber(t) ==
    \E k \in 1..Len(t) :
        /\ \A i \in 1..k : t[i] = "1"
        /\ \/ k = Len(t)
           \/ /\ k + 2 <= Len(t)
              /\ t[k + 1] = "."
              /\ \A i \in (k + 2)..Len(t) : t[i] = "1"

IsJsonEmptyObject(t) ==
    /\ Len(t) >= 2
    /\ t[1] = "{"
    /\ t[Len(t)] = "}"
    /\ \A i \in 2..(Len(t) - 1) : t[i] \in JsonWhitespace

IsJsonDefaultManifest(t) == t = <<"{", "PKG", "}">>

\* A string literal: quotes around characters that are neither a quote nor a
\* control character, or around escape sequences.
IsJsonString(t) ==
    /\ Len(t) >= 2
    /\ t[1] = "\"" /\ t[Len(t)] = "\""
    /\ \A i \in 2..(Len(t) - 1) :
           t[i] \in (PrintableChars \cup {EAcute}) \ {"\"", "PKG"}

JsonParses(s) ==
    LET t == Trim(s)
    IN  \/ IsJsonNumber(t) \/ IsJsonEmptyObject(t) \/ IsJsonDefaultManifest(t)
        \/ IsJsonString(t)

\* JSON.stringify prints a character above 0x7F as itself, not as an escape.
JsonReformat(s) ==
    LET t == Trim(s)
    IN  IF IsJsonEmptyObject(t) THEN <<"{", "}">>
        ELSE IF IsJsonString(t)
             THEN [i \in 1..Len(t) |->
                      IF t[i] = EscapedEAcute THEN EAcute ELSE t[i]]
             ELSE t

DefaultPackageJson == <<"{", "PKG", "}">>

packageJson == <<"p", "a", "c", "k", "a", "g", "e", ".", "j", "s", "o", "n">>

RECURSIVE NormalizeLineEndings(_)
NormalizeLineEndings(s) ==
    IF s = <<>> THEN <<>>
    ELSE IF Head(s) = "\r"
         THEN IF Len(s) >= 2 /\ s[2] = "\n"
              THEN <<"\n">> \o NormalizeLineEndings(Tail(Tail(s)))
              ELSE <<"\n">> \o NormalizeLineEndings(Tail(s))
         ELSE <<Head(s)>> \o NormalizeLineEndings(Tail(s))

JsonBranch(cleaned, filePath) ==
    IF Includes(filePath, <<".", "j", "s", "o", "n">>)
       \/ Includes(filePath, <<"p", "a", "c", "k", "a", "g", "e">>)
    THEN IF JsonParses(cleaned) THEN JsonReformat(cleaned)
         ELSE IF Includes(filePath, packageJson) THEN DefaultPackageJson
              ELSE <<"{", "}">>
    ELSE cleaned

\* index.ts: step 1 keeps the carriage return, which step 3 turns into a newline.
KeptByIndex == PrintableChars \cup {"\t", "\n", "\r"}

ultraCleanContent(content, filePath) ==
    IF content = <<>> THEN <<>>
    ELSE JsonBranch(NormalizeLineEndings(Filter(content, KeptByIndex)), filePath)

\* DockerManager: step 1 already removes the carriage return.
KeptByDockerManager == PrintableChars \cup {"\t", "\n"}

DockerManager_ultraCleanContent(content, filePath) ==
    IF content = <<>> THEN <<>>
    ELSE JsonBranch(NormalizeLineEndings(Filter(content, KeptByDockerManager)),
                    filePath)

-----------------------------------------------------------------------------
(* Maps                                                                    *)

MapSet(m, k, v) == [x \in DOMAIN m \cup {k} |-> IF x = k THEN v ELSE m[x]]

MapDelete(m, k) == [x \in DOMAIN m \ {k} |-> m[x]]

MapGet(m, k) == IF k \in DOMAIN m THEN m[k] ELSE 0    \* 0: undefined

EmptyMap == [x \in {} |-> 0]

-----------------------------------------------------------------------------
(* The container runtime and the host file system                          *)

\* path.resolve(process.cwd(), 'user'): the same directory for every user id.
hostPath(userId) == "user"

\* A createContainer request that names no container.
ContainerNameOmitted(userId) == 0

\* name: `user-${userId}`
ContainerName(userId) == userId

\* The runtime refuses a name that a container which still exists carries; a
\* container created without a name (0) gets a generated one.
NameInUse(name) ==
    /\ name # 0
    /\ \E c \in DOMAIN containers :
           containers[c].name = name /\ containers[c].state # "removed"

Running(c) == c \in DOMAIN containers /\ containers[c].state = "running"

\* The directory a container has mounted at /workspace (Binds).
Workspace(c) == MapGet(hostFiles, containers[c].bind)

NewContainerId == Cardinality(DOMAIN containers) + 1

-----------------------------------------------------------------------------
(* Calls                                                                   *)

\* raw: the path the client sent; arg: the filePath argument of the
\* DockerManager method; path: the file the runtime is asked for; content: the
\* bytes of the archive entry; container: the container the call holds.
Call(id, op, caller, user, sock, pc, raw, arg, path, content, container) ==
    [id |-> id, op |-> op, caller |-> caller, user |-> user, sock |-> sock,
     pc |-> pc, raw |-> raw, arg |-> arg, path |-> path, content |-> content,
     container |-> container]

\* The outcome of a call: ok is FALSE when it threw or rejected; content and by
\* are the text a read returned and the container that wrote the file read.
Outcome(c, ok, content, by) ==
    [op |-> c.op, caller |-> c.caller, user |-> c.user, sock |-> c.sock,
     ok |-> ok, raw |-> c.raw, path |-> c.path, sent |-> c.content,
     content |-> content, by |-> by]

Emit(sock, event) ==
    IF sock \in connected THEN emitted \cup {<<sock, event>>} ELSE emitted

EmitAll(sock, events) ==
    IF sock \in connected THEN emitted \cup {<<sock, e>> : e \in events}
    ELSE emitted

\* socket.emit('file:saved', { path, success, error? })
SavedEvent(success) ==
    IF success THEN "file:saved success: true" ELSE "file:saved success: false"

\* What the catch block of the handler of op emits.
FailureEvent(op) == IF op = "file:save" THEN SavedEvent(FALSE) ELSE "file:error"

\* The callers that are handlers of a socket: those of index.ts ("index") and
\* those of server/index.ts ("server").
FromSocket(caller) == caller \in {"index", "server"}

\* socket.id: every connection gets a socket id of its own.
SocketId(n) == 100 + n

NewSocketId == SocketId(Cardinality(DOMAIN closure) + 1)

\* An id generator that repeats an id it has given out.
generateRepeatedUserId ==
    IF DOMAIN closure = {} THEN Cardinality(DOMAIN closure) + 1
    ELSE closure[CHOOSE sock \in DOMAIN closure : TRUE].userId

\* 'user' + Date.now() + randomBytes(3): taken to be an id not given out before.
generateCleanUserId == Cardinality(DOMAIN closure) + 1

InitServer ==
    /\ socketUserMap = EmptyMap
    /\ userSocketMap = EmptyMap
    /\ connected = {}
    /\ closure = EmptyMap
    /\ emitted = {}
    /\ userContainers = EmptyMap
    /\ userShells = EmptyMap
    /\ containers = EmptyMap
    /\ shellEnded = {}
    /\ hostFiles = EmptyMap
    /\ calls = {}
    /\ finished = EmptyMap
    /\ nextCall = 1
    /\ terminal = [listeners |-> {}, received |-> <<>>, input |-> <<>>,
                   produced |-> <<>>, pending |-> <<>>, sent |-> <<>>]
    /\ timers = {}
    /\ phase = [step |-> "listening", image |-> "built"]

InitCommon == InitServer /\ evaluated = [fn |-> "none"]

Init ==
    /\ InitCommon
    /\ budget = [connections |-> MaxConnections, events |-> MaxEvents, api |-> 0]

\* The same server, receiving more events.
InitBusy ==
    /\ InitCommon
    /\ budget = [connections |-> MaxConnections, events |-> MaxBusyEvents,
                 api |-> 0]

-----------------------------------------------------------------------------
(* DockerManager.createUserContainer and createPersistentShell             *)

\* The call is made: it runs up to its first await (fs.stat).
StartCreate(userId, caller, sock) ==
    /\ calls' = calls \cup
           {Call(nextCall, "createUserContainer", caller, userId, sock,
                 "createContainer", <<>>, <<>>, <<>>, <<>>, 0)}
    /\ nextCall' = nextCall + 1

\* How a finished createUserSession continues in io.on('connection'):
\* .then sets containerReady, emits 'terminal:ready' and, if the user has a
\* shell stream by now, listens to its 'data' events; .catch only logs.
AfterCreate(c, ok) ==
    IF c.caller = "index" /\ ok
    THEN /\ closure' = [closure EXCEPT ![c.sock].containerReady = TRUE]
         /\ emitted' = Emit(c.sock, "terminal:ready")
         /\ terminal' =
                IF c.user \in DOMAIN userShells'
                THEN [terminal EXCEPT
                         !.listeners = @ \cup {<<userShells'[c.user], c.sock>>}]
                ELSE terminal
    ELSE UNCHANGED <<closure, emitted, terminal>>

\* fs.stat / fs.mkdir / fs.chmod make sure of the host directory; then
\* docker.createContainer resolves, or rejects (always so for a name in use
\* and when there is no image user-env:latest).
CreateContainer(c) ==
    /\ c.op = "createUserContainer" /\ c.pc = "createContainer"
    /\ hostFiles' = IF hostPath(c.user) \in DOMAIN hostFiles THEN hostFiles
                    ELSE MapSet(hostFiles, hostPath(c.user), EmptyMap)
    /\ \/ /\ ~NameInUse(ContainerName(c.user))
          /\ phase.image # "none"
          /\ containers' = MapSet(containers, NewContainerId,
                 [name |-> ContainerName(c.user), state |-> "created",
                  bind |-> hostPath(c.user)])
          /\ calls' = (calls \ {c}) \cup
                 {[c EXCEPT !.pc = "start", !.container = NewContainerId]}
          /\ UNCHANGED <<finished, closure, emitted, terminal>>
       \/ /\ calls' = calls \ {c}
          /\ finished' = MapSet(finished, c.id, Outcome(c, FALSE, <<>>, 0))
          /\ AfterCreate(c, FALSE)
          /\ UNCHANGED containers
    /\ UNCHANGED <<socketUserMap, userSocketMap, connected, userContainers,
                   userShells, shellEnded, nextCall, budget>>
    /\ UNCHANGED <<evaluated, timers, phase>>

\* container.start resolves and userContainers.set follows, or it rejects.
StartContainer(c) ==
    /\ c.op = "createUserContainer" /\ c.pc = "start"
    /\ \/ /\ containers[c.container].state = "created"
          /\ containers' = [containers EXCEPT ![c.container].state = "running"]
          /\ userContainers' = MapSet(userContainers, c.user, c.container)
          /\ calls' = (calls \ {c}) \cup {[c EXCEPT !.pc = "chmod"]}
          /\ UNCHANGED <<finished, closure, emitted, terminal>>
       \/ /\ calls' = calls \ {c}
          /\ finished' = MapSet(finished, c.id, Outcome(c, FALSE, <<>>, 0))
          /\ AfterCreate(c, FALSE)
          /\ UNCHANGED <<containers, userContainers>>
    /\ UNCHANGED <<socketUserMap, userSocketMap, connected, userShells,
                   shellEnded, hostFiles, nextCall, budget>>
    /\ UNCHANGED <<evaluated, timers, phase>>

\* The chmod exec (a failure is only logged), then createPersistentShell up to
\* its first await: without a registered container it returns at once.
ChmodWorkspace(c) ==
    /\ c.op = "createUserContainer" /\ c.pc = "chmod"
    /\ UNCHANGED <<socketUserMap, userSocketMap, connected, userContainers,
                   userShells, containers, shellEnded, hostFiles, nextCall,
                   budget>>
    /\ IF c.user \in DOMAIN userContainers
       THEN /\ calls' = (calls \ {c}) \cup
                  {[c EXCEPT !.pc = "shell",
                             !.container = userContainers[c.user]]}
            /\ UNCHANGED <<finished, closure, emitted, terminal>>
       ELSE /\ calls' = calls \ {c}
            /\ finished' = MapSet(finished, c.id, Outcome(c, TRUE, <<>>, 0))
            /\ AfterCreate(c, TRUE)
    /\ UNCHANGED <<evaluated, timers, phase>>

\* container.exec / exec.start of the shell: the stream is registered, or the
\* failure is caught and logged; createUserContainer resolves either way.
AttachShell(c) ==
    /\ c.op = "createUserContainer" /\ c.pc = "shell"
    /\ \/ /\ Running(c.container)
          /\ userShells' = MapSet(userShells, c.user, c.container)
       \/ UNCHANGED userShells
    /\ calls' = calls \ {c}
    /\ finished' = MapSet(finished, c.id, Outcome(c, TRUE, <<>>, 0))
    /\ AfterCreate(c, TRUE)
    /\ UNCHANGED <<socketUserMap, userSocketMap, connected, userContainers,
                   containers, shellEnded, hostFiles, nextCall, budget>>
    /\ UNCHANGED <<evaluated, timers, phase>>

-----------------------------------------------------------------------------
(* DockerManager.cleanupContainer                                          *)

\* The call is made: the shell is ended and forgotten; without a registered
\* container it returns, otherwise it awaits container.stop.
StartCleanup(userId, caller, sock) ==
    /\ IF userId \in DOMAIN userShells
       THEN /\ shellEnded' = shellEnded \cup {userShells[userId]}
            /\ userShells' = MapDelete(userShells, userId)
       ELSE UNCHANGED <<shellEnded, userShells>>
    /\ LET c == Call(nextCall, "cleanupContainer", caller, userId, sock,
                     "stop", <<>>, <<>>, <<>>, <<>>,
                     MapGet(userContainers, userId))
       IN  IF userId \in DOMAIN userContainers
           THEN calls' = calls \cup {c} /\ UNCHANGED finished
           ELSE /\ finished' = MapSet(finished, c.id, Outcome(c, TRUE, <<>>, 0))
                /\ UNCHANGED calls
    /\ nextCall' = nextCall + 1

\* container.stop resolves (AutoRemove then removes the container) and
\* container.remove is awaited, or it rejects and the catch block forgets the
\* registry entry.
StopContainer(c) ==
    /\ c.op = "cleanupContainer" /\ c.pc = "stop"
    /\ \/ /\ Running(c.container)
          /\ containers' = [containers EXCEPT ![c.container].state = "removed"]
          /\ calls' = (calls \ {c}) \cup {[c EXCEPT !.pc = "remove"]}
          /\ UNCHANGED <<userContainers, finished>>
       \/ /\ userContainers' = MapDelete(userContainers, c.user)
          /\ calls' = calls \ {c}
          /\ finished' = MapSet(finished, c.id, Outcome(c, TRUE, <<>>, 0))
          /\ UNCHANGED containers
    /\ UNCHANGED <<socketUserMap, userSocketMap, connected, closure, emitted,
                   userShells, shellEnded, hostFiles, nextCall, budget>>
    /\ UNCHANGED <<terminal, evaluated, timers,
                   phase>>

\* container.remove resolves or rejects: the registry entry is forgotten.
RemoveContainer(c) ==
    /\ c.op = "cleanupContainer" /\ c.pc = "remove"
    /\ userContainers' = MapDelete(userContainers, c.user)
    /\ calls' = calls \ {c}
    /\ finished' = MapSet(finished, c.id, Outcome(c, TRUE, <<>>, 0))
    /\ UNCHANGED <<socketUserMap, userSocketMap, connected, closure, emitted,
                   userShells, containers, shellEnded, hostFiles, nextCall,
                   budget>>
    /\ UNCHANGED <<terminal, evaluated, timers,
                   phase>>

-----------------------------------------------------------------------------
(* DockerManager.writeFileToContainer and cleanupDuplicateFiles            *)

StripLeadingSlash(path) == IF StartsWith(path, <<"/">>) THEN Tail(path) ELSE path

\* decodedPath.replace(/^\/+/, '')
RECURSIVE StripLeadingSlashes(_)
StripLeadingSlashes(path) ==
    IF StartsWith(path, <<"/">>) THEN StripLeadingSlashes(Tail(path)) ELSE path

\* The call is made: without a registered container it throws; otherwise the
\* path is repaired, the content cleaned, the archive packed and
\* container.putArchive awaited.
StartWrite(op, userId, caller, sock, raw, filePath, content) ==
    /\ LET fixedPath == fixIncompleteExtension(filePath)
           cleanContent == DockerManager_ultraCleanContent(content, fixedPath)
           c == Call(nextCall, op, caller, userId, sock, "putArchive", raw,
                     filePath, StripLeadingSlash(fixedPath), cleanContent,
                     MapGet(userContainers, userId))
       IN  IF userId \in DOMAIN userContainers
           THEN calls' = calls \cup {c} /\ UNCHANGED <<finished, emitted>>
           ELSE /\ finished' = MapSet(finished, c.id, Outcome(c, FALSE, <<>>, 0))
                /\ emitted' = IF FromSocket(caller)
                              THEN Emit(sock, FailureEvent(op))
                              ELSE emitted
                /\ UNCHANGED calls
    /\ nextCall' = nextCall + 1

\* container.putArchive: the runtime unpacks the entry into the directory
\* mounted at /workspace, or rejects because the container is gone.
PutArchive(c) ==
    /\ c.pc = "putArchive"
    /\ IF containers[c.container].state # "removed"
       THEN /\ hostFiles' = [hostFiles EXCEPT ![containers[c.container].bind] =
                    MapSet(@, c.path, [content |-> c.content, by |-> c.container,
                                       dir |-> FALSE])]
            /\ calls' = (calls \ {c}) \cup {[c EXCEPT !.pc = "sync"]}
            /\ UNCHANGED <<finished, emitted>>
       ELSE /\ calls' = calls \ {c}
            /\ finished' = MapSet(finished, c.id, Outcome(c, FALSE, <<>>, 0))
            /\ emitted' = IF FromSocket(c.caller)
                          THEN Emit(c.sock, FailureEvent(c.op))
                          ELSE emitted
            /\ UNCHANGED hostFiles
    /\ UNCHANGED <<socketUserMap, userSocketMap, connected, closure,
                   userContainers, userShells, containers, shellEnded,
                   nextCall, budget>>
    /\ UNCHANGED <<terminal, evaluated, timers,
                   phase>>

\* A handler that finishes without telling the client.
WriteHandledQuietly(c) ==
    /\ calls' = calls \ {c}
    /\ finished' = MapSet(finished, c.id, Outcome(c, TRUE, <<>>, 0))
    /\ UNCHANGED <<emitted, timers>>

\* How a handler goes on when cleanupDuplicateFiles has returned and no
\* container is registered any more: file:change sets the timer that emits
\* 'file:refresh' (setTimeout 100), file:save acknowledges the save, POST
\* /files/create emits 'file:refresh' to the socket userSocketMap has for the
\* user and responds.  A direct caller of writeFileToContainer has its result
\* after the sync.
WriteHandled(c) ==
    /\ calls' = calls \ {c}
    /\ finished' = MapSet(finished, c.id, Outcome(c, TRUE, <<>>, 0))
    /\ IF c.op = "file:change"
       THEN /\ timers' = timers \cup {[id |-> c.id, sock |-> c.sock]}
            /\ UNCHANGED emitted
       ELSE IF c.op = "file:save"
            THEN /\ emitted' = EmitAll(c.sock, {SavedEvent(TRUE), "file:refresh"})
                 /\ UNCHANGED timers
            ELSE IF c.caller = "http"
                 THEN /\ emitted' = Emit(MapGet(userSocketMap, c.user),
                                         "file:refresh")
                      /\ UNCHANGED timers
                 ELSE UNCHANGED <<emitted, timers>>

\* The sync exec (a failure is only logged): writeFileToContainer returns.  In
\* the file:change and file:save handlers cleanupDuplicateFiles follows,
\* which returns at once without a registered container.
SyncWorkspace(c) ==
    /\ c.pc = "sync"
    /\ IF c.op \in {"file:change", "file:save"} /\ c.user \in DOMAIN userContainers
       THEN /\ calls' = (calls \ {c}) \cup
                  {[c EXCEPT !.pc = "cleanup",
                             !.container = userContainers[c.user]]}
            /\ UNCHANGED <<finished, emitted, timers>>
       ELSE WriteHandled(c)
    /\ UNCHANGED <<socketUserMap, userSocketMap, connected, closure,
                   userContainers, userShells, containers, shellEnded,
                   hostFiles, nextCall, budget>>
    /\ UNCHANGED <<terminal, evaluated, phase>>

RECURSIVE Basename(_)
Basename(path) ==
    IF Includes(path, <<"/">>) THEN Basename(Tail(path)) ELSE path

\* A find whose -name patterns match the extension anywhere in the name
\* ('*<ext>*') instead of at its end.
DeletedByCleanupAnywhere(path) ==
    \E i \in 1..Len(extensionMap) : Includes(Basename(path), extensionMap[i][1])

\* find -name '*<ext>' -type f ! -name '*<canonical>' ... -delete, for each of
\* the incomplete extensions.
DeletedByCleanup(path) ==
    /\ \E i \in 1..Len(extensionMap) : EndsWith(Basename(path), extensionMap[i][1])
    /\ \A i \in 1..Len(extensionMap) : ~EndsWith(Basename(path), extensionMap[i][2])

\* server/src/Docker/DockerManager.ts: find -name '*.j' ! -name '*.js'
\* ! -name '*.json' -delete, then the same for '*.t' with '*.ts' and '*.txt'.
DeletedByServerCleanup(path) ==
    LET name == Basename(path)
    IN  \/ /\ EndsWith(name, <<".", "j">>)
           /\ ~EndsWith(name, <<".", "j", "s">>)
           /\ ~EndsWith(name, <<".", "j", "s", "o", "n">>)
        \/ /\ EndsWith(name, <<".", "t">>)
           /\ ~EndsWith(name, <<".", "t", "s">>)
           /\ ~EndsWith(name, <<".", "t", "x", "t">>)

\* The find execs of cleanupDuplicateFiles, one after the other; against a
\* container that is gone every exec fails and is only logged.  file:save
\* then awaits a sync exec of its own if a container is registered, and GET
\* /files goes on to listFiles.
CleanupDuplicateFiles(c) ==
    /\ c.pc = "cleanup"
    /\ hostFiles' =
         IF Running(c.container)
         THEN [hostFiles EXCEPT ![containers[c.container].bind] =
                  [f \in {g \in DOMAIN @ :
                             \/ @[g].dir
                             \/ IF c.caller = "server"
                                THEN ~DeletedByServerCleanup(g)
                                ELSE ~DeletedByCleanup(g)} |-> @[f]]]
         ELSE hostFiles
    /\ IF c.op = "file:save" /\ c.user \in DOMAIN userContainers
       THEN /\ calls' = (calls \ {c}) \cup
                  {[c EXCEPT !.pc = "saveSync",
                             !.container = userContainers[c.user]]}
            /\ UNCHANGED <<finished, emitted, timers>>
       ELSE IF c.op = "getTree"
            THEN /\ calls' = (calls \ {c}) \cup
                       {[c EXCEPT !.pc = "exec",
                                  !.container = MapGet(userContainers, c.user)]}
                 /\ UNCHANGED <<finished, emitted, timers>>
            ELSE WriteHandled(c)
    /\ UNCHANGED <<socketUserMap, userSocketMap, connected, closure,
                   userContainers, userShells, containers, shellEnded,
                   nextCall, budget>>
    /\ UNCHANGED <<terminal, evaluated, phase>>

\* file:save: container.exec({Cmd: ['sync']}) and its start resolve, and the
\* save is acknowledged, or they reject and the catch block reports it.
SaveSync(c) ==
    /\ c.pc = "saveSync"
    /\ calls' = calls \ {c}
    /\ IF Running(c.container)
       THEN /\ finished' = MapSet(finished, c.id, Outcome(c, TRUE, <<>>, 0))
            /\ emitted' = EmitAll(c.sock, {SavedEvent(TRUE), "file:refresh"})
       ELSE /\ finished' = MapSet(finished, c.id, Outcome(c, FALSE, <<>>, 0))
            /\ emitted' = Emit(c.sock, SavedEvent(FALSE))
    /\ UNCHANGED <<socketUserMap, userSocketMap, connected, closure,
                   userContainers, userShells, containers, shellEnded,
                   hostFiles, nextCall, budget>>
    /\ UNCHANGED <<terminal, evaluated, timers, phase>>

\* The callback of setTimeout(() => socket.emit('file:refresh'), 100).
RefreshTimer(t) ==
    /\ t \in timers
    /\ timers' = timers \ {t}
    /\ emitted' = Emit(t.sock, "file:refresh")
    /\ UNCHANGED <<socketUserMap, userSocketMap, connected, closure,
                   userContainers, userShells, containers, shellEnded,
                   hostFiles, calls, finished, nextCall, budget>>
    /\ UNCHANGED <<terminal, evaluated, phase>>

-----------------------------------------------------------------------------
(* DockerManager.readFileFromContainer                                     *)

\* The messages of the errors a call rejects with: the two the code builds
\* itself, and the one of an error of the runtime (a request to a container
\* that is not running).
ContainerNotFound == <<"Container not found">>

FileNotFound == <<"File not found">>

RuntimeError == <<"runtime error">>

\* The call is made: without a registered container it throws; otherwise the
\* path is repaired and the cat exec awaited.
StartRead(userId, caller, sock, raw, filePath) ==
    /\ LET c == Call(nextCall, "readFileFromContainer", caller, userId, sock,
                     "cat", raw, filePath,
                     StripLeadingSlash(fixIncompleteExtension(filePath)), <<>>,
                     MapGet(userContainers, userId))
       IN  IF userId \in DOMAIN userContainers
           THEN calls' = calls \cup {c} /\ UNCHANGED finished
           ELSE /\ finished' = MapSet(finished, c.id,
                                   Outcome(c, FALSE, ContainerNotFound, 0))
                /\ UNCHANGED calls
    /\ nextCall' = nextCall + 1

\* The stream of the cat exec ends: a chunk holding one of the not-found
\* phrases counts as an error; exit code 0 and no error resolve with the
\* cleaned output, which GET /files/content cleans once more; anything else
\* rejects with 'File not found'.  Against a container that is not running
\* container.exec rejects with the error of the runtime.
CatFile(c) ==
    /\ c.pc = "cat"
    /\ LET files == Workspace(c.container)
           exists == /\ Running(c.container)
                     /\ c.path \in DOMAIN files
                     /\ ~files[c.path].dir
           output == IF exists THEN files[c.path].content ELSE <<>>
           error == Includes(output, <<NotFoundPhrase>>)
           text == DockerManager_ultraCleanContent(output, c.arg)
       IN  finished' = MapSet(finished, c.id,
               IF exists /\ ~error
               THEN Outcome(c, TRUE,
                        IF c.caller = "index" THEN ultraCleanContent(text, c.arg)
                        ELSE text,
                        files[c.path].by)
               ELSE IF Running(c.container)
                    THEN Outcome(c, FALSE, FileNotFound, 0)
                    ELSE Outcome(c, FALSE, RuntimeError, 0))
    /\ calls' = calls \ {c}
    /\ UNCHANGED <<socketUserMap, userSocketMap, connected, closure, emitted,
                   userContainers, userShells, containers, shellEnded,
                   hostFiles, nextCall, budget>>
    /\ UNCHANGED <<terminal, evaluated, timers,
                   phase>>

-----------------------------------------------------------------------------
(* index.ts: the socket handlers and GET /files/content                    *)

\* io.on('connection')
Connection ==
    /\ phase.step = "listening"
    /\ budget.connections > 0
    /\ budget.events > 0
    /\ LET userId == generateCleanUserId
           sock == NewSocketId
       IN  /\ socketUserMap' = MapSet(socketUserMap, sock, userId)
           /\ userSocketMap' = MapSet(userSocketMap, userId, sock)
           /\ connected' = connected \cup {sock}
           /\ closure' = MapSet(closure, sock,
                                [userId |-> userId, containerReady |-> FALSE])
           /\ StartCreate(userId, "index", sock)
    /\ budget' = [budget EXCEPT !.connections = @ - 1, !.events = @ - 1]
    /\ UNCHANGED <<emitted, userContainers, userShells, containers, shellEnded,
                   hostFiles, finished>>
    /\ UNCHANGED <<terminal, evaluated, timers,
                   phase>>

\* socket.on('file:change')
FileChange(sock, path, content) ==
    /\ sock \in connected
    /\ budget.events > 0
    /\ LET finalPath == fixIncompleteExtension(path)
           cleanContent == ultraCleanContent(content, finalPath)
       IN  StartWrite("file:change", closure[sock].userId, "index", sock,
                      path, finalPath, cleanContent)
    /\ budget' = [budget EXCEPT !.events = @ - 1]
    /\ UNCHANGED <<socketUserMap, userSocketMap, connected, closure,
                   userContainers, userShells, containers, shellEnded,
                   hostFiles>>
    /\ UNCHANGED <<terminal, evaluated, timers,
                   phase>>

\* socket.on('file:save')
FileSave(sock, path, content) ==
    /\ sock \in connected
    /\ budget.events > 0
    /\ LET fixedPath == fixIncompleteExtension(path)
           cleanContent == ultraCleanContent(content, fixedPath)
       IN  StartWrite("file:save", closure[sock].userId, "index", sock,
                      path, fixedPath, cleanContent)
    /\ budget' = [budget EXCEPT !.events = @ - 1]
    /\ UNCHANGED <<socketUserMap, userSocketMap, connected, closure,
                   userContainers, userShells, containers, shellEnded,
                   hostFiles>>
    /\ UNCHANGED <<terminal, evaluated, timers, phase>>

\* server/src/Docker/DockerManager.ts, writeFileToContainer: control
\* characters other than tab, newline and carriage return are removed
\* (characters from 0xA0 on are kept) and line endings normalized.
SanitizedContent(content) ==
    NormalizeLineEndings(
        Filter(content, PrintableChars \cup {"\t", "\n", "\r", EAcute}))

\* server/index.ts, socket.on('file:save'), with the writeFileToContainer of
\* server/src/Docker/DockerManager.ts: without a registered container that
\* function logs and returns, cleanupDuplicateFiles returns, getContainer
\* gives undefined, and the handler acknowledges the save.
ServerFileSave(sock, path, content) ==
    /\ sock \in connected
    /\ budget.events > 0
    /\ LET userId == closure[sock].userId
           fixedPath == IF /\ EndsWith(path, <<".", "j">>)
                           /\ ~EndsWith(path, <<".", "j", "s">>)
                           /\ ~EndsWith(path, <<".", "j", "s", "o", "n">>)
                        THEN path \o <<"s">> ELSE path
           c == Call(nextCall, "file:save", "server", userId, sock,
                     "putArchive", path, fixedPath,
                     StripLeadingSlash(fixedPath), SanitizedContent(content),
                     MapGet(userContainers, userId))
       IN  IF userId \in DOMAIN userContainers
           THEN calls' = calls \cup {c} /\ UNCHANGED <<finished, emitted>>
           ELSE /\ finished' = MapSet(finished, c.id, Outcome(c, TRUE, <<>>, 0))
                /\ emitted' = EmitAll(sock, {SavedEvent(TRUE), "file:refresh"})
                /\ UNCHANGED calls
    /\ nextCall' = nextCall + 1
    /\ budget' = [budget EXCEPT !.events = @ - 1]
    /\ UNCHANGED <<socketUserMap, userSocketMap, connected, closure,
                   userContainers, userShells, containers, shellEnded,
                   hostFiles>>
    /\ UNCHANGED <<terminal, evaluated, timers, phase>>

\* socket.on('disconnect')
Disconnect(sock) ==
    /\ sock \in connected
    /\ budget.events > 0
    /\ budget' = [budget EXCEPT !.events = @ - 1]
    /\ connected' = connected \ {sock}
    /\ socketUserMap' = MapDelete(socketUserMap, sock)
    /\ userSocketMap' = MapDelete(userSocketMap, closure[sock].userId)
    /\ StartCleanup(closure[sock].userId, "index", sock)
    /\ UNCHANGED <<closure, emitted, userContainers, containers, hostFiles>>
    /\ UNCHANGED <<terminal, evaluated, timers,
                   phase>>

\* GET /files/content?userId=<socket id>&path=<path>
GetFileContent(sock, rawPath) ==
    /\ budget.events > 0
    /\ sock \in DOMAIN socketUserMap
    /\ LET finalPath == fixIncompleteExtension(StripLeadingSlashes(rawPath))
       IN  /\ finalPath # <<>>
           /\ StartRead(socketUserMap[sock], "index", sock, rawPath, finalPath)
    /\ budget' = [budget EXCEPT !.events = @ - 1]
    /\ UNCHANGED <<socketUserMap, userSocketMap, connected, closure, emitted,
                   userContainers, userShells, containers, shellEnded,
                   hostFiles>>
    /\ UNCHANGED <<terminal, evaluated, timers,
                   phase>>

-----------------------------------------------------------------------------
(* The server                                                              *)

SessionPaths == { <<"a", ".", "j">> }

SessionContents == { <<"a">>, <<"b", "\r">> }

\* A runtime that answers its requests one at a time, in the order they
\* were made: no answer before every earlier request was answered.
StepInTurn(c) ==
    /\ \A d \in calls : c.id <= d.id
    /\ \/ CreateContainer(c)
       \/ StartContainer(c)
       \/ ChmodWorkspace(c)
       \/ AttachShell(c)
       \/ StopContainer(c)
       \/ RemoveContainer(c)
       \/ PutArchive(c)
       \/ SyncWorkspace(c)
       \/ CleanupDuplicateFiles(c)
       \/ CatFile(c)

Step(c) ==
    \/ CreateContainer(c)
    \/ StartContainer(c)
    \/ ChmodWorkspace(c)
    \/ AttachShell(c)
    \/ StopContainer(c)
    \/ RemoveContainer(c)
    \/ PutArchive(c)
    \/ SyncWorkspace(c)
    \/ CleanupDuplicateFiles(c)
    \/ CatFile(c)

Next ==
    \/ Connection
    \/ \E sock \in connected : Disconnect(sock)
    \/ \E sock \in connected, path \in SessionPaths, content \in SessionContents :
           FileChange(sock, path, content)
    \/ \E sock \in DOMAIN socketUserMap, path \in SessionPaths :
           GetFileContent(sock, path)
    \/ \E c \in calls : Step(c)
    \/ \E t \in timers : RefreshTimer(t)

Spec == Init /\ [][Next]_vars

SpecBusy == InitBusy /\ [][Next]_vars

-----------------------------------------------------------------------------
(* Two sessions, the runtime calls of the first of which may never return   *)

\* The user id of the session whose runtime calls may hang.
HungUser == 1

\* The runtime answers every call of the other sessions and Node runs every
\* timer callback; nothing makes it answer a call of HungUser.
InitHang ==
    /\ InitCommon
    /\ budget = [connections |-> 2, events |-> 4, api |-> 0]

NextHang ==
    \/ Connection
    \/ \E sock \in connected, path \in SessionPaths :
           FileChange(sock, path, <<"a">>)
    \/ \E c \in calls : Step(c)
    \/ \E t \in timers : RefreshTimer(t)

SpecHang ==
    /\ InitHang
    /\ [][NextHang]_vars
    /\ WF_vars(\E c \in calls : c.user # HungUser /\ Step(c))
    /\ WF_vars(\E t \in timers : RefreshTimer(t))

-----------------------------------------------------------------------------
(* chokidar.watch('./user'): the watcher of the directory every sandbox     *)
(* mounts, and its debounced refresh                                        *)

\* io.emit('file:refresh', thePath): the refresh that carries a path.
WatchedRefresh == "file:refresh thePath"

\* The watcher is started with the module: it has seen no file yet and
\* refreshTimeout is undefined.
InitWatch ==
    /\ InitServer
    /\ budget = [connections |-> MaxConnections, events |-> MaxEvents, api |-> 0]
    /\ evaluated = [fn |-> "chokidar.watch", seen |-> EmptyMap,
                    refreshTimeout |-> {}]

\* .on('all', (event, thePath) => ...): the watcher notices that a path of
\* ./user was added, changed or unlinked, whoever did it; the callback
\* clears the timeout that is pending and sets one for this path.
ChokidarAll(thePath) ==
    /\ hostPath(0) \in DOMAIN hostFiles
    /\ LET files == hostFiles[hostPath(0)]
           seen  == evaluated.seen
       IN  /\ thePath \in DOMAIN files \cup DOMAIN seen
           /\ IF thePath \in DOMAIN seen /\ thePath \in DOMAIN files
              THEN seen[thePath] # files[thePath]
              ELSE TRUE
           /\ evaluated' =
                [evaluated EXCEPT
                    !.seen = IF thePath \in DOMAIN files
                             THEN MapSet(seen, thePath, files[thePath])
                             ELSE MapDelete(seen, thePath),
                    !.refreshTimeout =
                        {[path |-> thePath,
                          by |-> IF thePath \in DOMAIN files
                                 THEN files[thePath].by ELSE seen[thePath].by]}]
    /\ UNCHANGED <<socketUserMap, userSocketMap, connected, closure, emitted,
                   userContainers, userShells, containers, shellEnded,
                   hostFiles, calls, finished, nextCall, budget, terminal,
                   timers, phase>>

\* The callback of setTimeout(() => io.emit('file:refresh', thePath), 100):
\* to every client that is connected.
WatchTimeout ==
    /\ evaluated.refreshTimeout # {}
    /\ evaluated' = [evaluated EXCEPT !.refreshTimeout = {}]
    /\ emitted' = emitted \cup {<<sock, WatchedRefresh>> : sock \in connected}
    /\ UNCHANGED <<socketUserMap, userSocketMap, connected, closure,
                   userContainers, userShells, containers, shellEnded,
                   hostFiles, calls, finished, nextCall, budget, terminal,
                   timers, phase>>

NextWatch ==
    \/ Connection
    \/ \E sock \in connected, path \in SessionPaths, content \in SessionContents :
           FileChange(sock, path, content)
    \/ \E c \in calls : Step(c)
    \/ \E t \in timers : RefreshTimer(t)
    \/ \E thePath \in {fixIncompleteExtension(p) : p \in SessionPaths} :
           ChokidarAll(thePath)
    \/ WatchTimeout

SpecWatch == InitWatch /\ [][NextWatch]_vars

-----------------------------------------------------------------------------
(* Start-up: containerService.initialize().then(cleanupOldContainers,       *)
(* server.listen).catch(process.exit)                                       *)

\* The user id of a session of an earlier run of the server.
OldUser == 9

OldContainer(n, state) ==
    [name |-> ContainerName(OldUser + n), state |-> state,
     bind |-> hostPath(OldUser)]

\* The containers an earlier run has left: each is running, or was created
\* and never started (container.start rejected, or the process ended before
\* it); one that has exited is gone, being created with AutoRemove.
OldContainers ==
    UNION {[1..n -> {"running", "created"}] : n \in 0..MaxOldContainers}

\* The process starts: the image user-env:latest is there from an earlier
\* run or is not, and so is a container of an earlier run, running or stopped.
InitStartup ==
    /\ socketUserMap = EmptyMap
    /\ userSocketMap = EmptyMap
    /\ connected = {}
    /\ closure = EmptyMap
    /\ emitted = {}
    /\ userContainers = EmptyMap
    /\ userShells = EmptyMap
    /\ \E old \in OldContainers :
           /\ containers = [c \in DOMAIN old |-> OldContainer(c, old[c])]
           /\ hostFiles = IF DOMAIN old = {} THEN EmptyMap
                          ELSE MapSet(EmptyMap, hostPath(OldUser), EmptyMap)
    /\ shellEnded = {}
    /\ calls = {}
    /\ finished = EmptyMap
    /\ nextCall = 1
    /\ budget = [connections |-> MaxConnections, events |-> MaxEvents, api |-> 0]
    /\ terminal = [listeners |-> {}, received |-> <<>>, input |-> <<>>,
                   produced |-> <<>>, pending |-> <<>>, sent |-> <<>>]
    /\ evaluated = [fn |-> "none"]
    /\ timers = {}
    /\ \E image \in {"none", "stale"} :
           phase = [step |-> "building", image |-> image]

StartupFrame ==
    UNCHANGED <<socketUserMap, userSocketMap, connected, closure, emitted,
                userContainers, userShells, shellEnded, hostFiles, calls,
                finished, nextCall, budget, terminal, evaluated, timers>>

\* buildUserImage: docker.buildImage calls back with an error (the runtime
\* cannot be reached) and the promise rejects, or it calls back with the
\* stream of the build, whose 'end' resolves the promise: the stream ends when
\* the build has made the image and also when a step of it has failed, which
\* the runtime reports as a message on the stream.
BuildUserImage ==
    /\ phase.step = "building"
    /\ \/ phase' = [phase EXCEPT !.step = "aborted"]
       \/ phase' = [step |-> "sweeping", image |-> "built"]
       \/ phase' = [phase EXCEPT !.step = "sweeping"]
    /\ UNCHANGED containers
    /\ StartupFrame

\* cleanupOldContainers: each container named user-* is stopped and removed
\* inside one try block: stop rejects for a container that is not running
\* ('container already stopped'), which skips its remove and goes on with the
\* next container.  Then server.listen.
CleanupOldContainers ==
    /\ phase.step = "sweeping"
    /\ containers' = [c \in DOMAIN containers |->
                         IF Running(c) THEN [containers[c] EXCEPT !.state = "removed"]
                         ELSE containers[c]]
    /\ phase' = [phase EXCEPT !.step = "listening"]
    /\ StartupFrame

NextStartup ==
    \/ BuildUserImage
    \/ CleanupOldContainers
    \/ Next

SpecStartup == InitStartup /\ [][NextStartup]_vars

-----------------------------------------------------------------------------
(* DockerManager driven by a direct caller                                 *)

ApiFrame == UNCHANGED <<socketUserMap, userSocketMap, connected, closure>>

ApiCreateUserContainer(userId) ==
    /\ budget.api > 0
    /\ budget' = [budget EXCEPT !.api = @ - 1]
    /\ StartCreate(userId, "api", 0)
    /\ ApiFrame
    /\ UNCHANGED <<emitted, userContainers, userShells, containers, shellEnded,
                   hostFiles, finished>>
    /\ UNCHANGED <<terminal, evaluated, timers,
                   phase>>

ApiCleanupContainer(userId) ==
    /\ budget.api > 0
    /\ budget' = [budget EXCEPT !.api = @ - 1]
    /\ StartCleanup(userId, "api", 0)
    /\ ApiFrame
    /\ UNCHANGED <<emitted, userContainers, containers, hostFiles>>
    /\ UNCHANGED <<terminal, evaluated, timers,
                   phase>>

ApiWriteFileToContainer(userId, filePath, content) ==
    /\ budget.api > 0
    /\ budget' = [budget EXCEPT !.api = @ - 1]
    /\ StartWrite("writeFileToContainer", userId, "api", 0, filePath, filePath,
                  content)
    /\ ApiFrame
    /\ UNCHANGED <<userContainers, userShells, containers, shellEnded,
                   hostFiles>>
    /\ UNCHANGED <<terminal, evaluated, timers,
                   phase>>

ApiReadFileFromContainer(userId, filePath) ==
    /\ budget.api > 0
    /\ budget' = [budget EXCEPT !.api = @ - 1]
    /\ StartRead(userId, "api", 0, filePath, filePath)
    /\ ApiFrame
    /\ UNCHANGED <<emitted, userContainers, userShells, containers, shellEnded,
                   hostFiles>>
    /\ UNCHANGED <<terminal, evaluated, timers,
                   phase>>

InitDM ==
    /\ InitCommon
    /\ budget = [connections |-> 0, events |-> 0, api |-> MaxApiCalls]

\* A caller that does not wait for one call to return before the next.
StepDM(c) ==
    \/ CreateContainer(c)
    \/ StartContainer(c)
    \/ ChmodWorkspace(c)
    \/ AttachShell(c)
    \/ StopContainer(c)
    \/ RemoveContainer(c)

NextDM ==
    \/ \E userId \in 1..MaxUsers : ApiCreateUserContainer(userId)
    \/ \E userId \in 1..MaxUsers : ApiCleanupContainer(userId)
    \/ \E c \in calls : StepDM(c)

SpecDM == InitDM /\ [][NextDM]_vars

\* A caller that awaits every call before it makes the next.
StepSequential(c) ==
    \/ CreateContainer(c)
    \/ StartContainer(c)
    \/ ChmodWorkspace(c)
    \/ AttachShell(c)
    \/ StopContainer(c)
    \/ RemoveContainer(c)
    \/ PutArchive(c)
    \/ SyncWorkspace(c)
    \/ CatFile(c)

NextSequential ==
    \/ \E userId \in 1..MaxUsers :
           calls = {} /\ ApiCreateUserContainer(userId)
    \/ \E userId \in 1..MaxUsers :
           calls = {} /\ ApiCleanupContainer(userId)
    \/ \E userId \in 1..MaxUsers, path \in SessionPaths, content \in SessionContents :
           calls = {} /\ ApiWriteFileToContainer(userId, path, content)
    \/ \E userId \in 1..MaxUsers, path \in SessionPaths :
           calls = {} /\ ApiReadFileFromContainer(userId, path)
    \/ \E c \in calls : StepSequential(c)

InitSequential ==
    /\ InitCommon
    /\ budget = [connections |-> 0, events |-> 0, api |-> MaxAwaitedCalls]

SpecSequential == InitSequential /\ [][NextSequential]_vars

-----------------------------------------------------------------------------
(* writeFileToContainer called with paths that begin with separators        *)

ArchivePaths ==
    { <<"a">>, <<"/", "a">>, <<"/", "/", "a">>, <<"/", "a", ".", "j">> }

StepArchive(c) ==
    \/ CreateContainer(c)
    \/ StartContainer(c)
    \/ ChmodWorkspace(c)
    \/ AttachShell(c)
    \/ PutArchive(c)
    \/ SyncWorkspace(c)

NextArchive ==
    \/ \E userId \in 1..MaxUsers :
           calls = {} /\ ApiCreateUserContainer(userId)
    \/ \E userId \in 1..MaxUsers, path \in ArchivePaths, content \in SessionContents :
           calls = {} /\ ApiWriteFileToContainer(userId, path, content)
    \/ \E c \in calls : StepArchive(c)

SpecArchive == InitSequential /\ [][NextArchive]_vars

-----------------------------------------------------------------------------
(* DockerManager.createDirectory, renamePath and deletePath                *)

Directory(by) == [content |-> <<>>, by |-> by, dir |-> TRUE]

\* p lies below the directory dir.
Under(dir, p) == StartsWith(p, dir \o <<"/">>)

\* The directories a path names on its way: "a/b/c" has "a" and "a/b".
Ancestors(p) ==
    {SubSeq(p, 1, i - 1) : i \in {k \in 1..Len(p) : p[k] = "/"}} \ {<<>>}

\* A file, a directory that was made, or a directory some file lies in.
Exists(files, p) ==
    p \in DOMAIN files \/ \E q \in DOMAIN files : Under(p, q)

IsDirectory(files, p) ==
    \/ p \in DOMAIN files /\ files[p].dir
    \/ \E q \in DOMAIN files : Under(p, q)

\* mkdir -p /workspace/<p> exits nonzero when p or a directory on its way
\* is a file ('cannot create directory ...: File exists' / 'Not a directory').
MkdirFails(files, p) ==
    \E q \in Ancestors(p) \cup {p} : q \in DOMAIN files /\ ~files[q].dir

\* mkdir -p makes the directories on the way too; "." is the workspace.
Mkdir(files, p, by) ==
    [q \in DOMAIN files \cup Ancestors(p) \cup ({p} \ {<<>>, <<".">>}) |->
        IF q \in DOMAIN files THEN files[q] ELSE Directory(by)]

\* The directories on the way to p that are there stay when p goes.
KeepAncestors(files, after, p, by) ==
    [q \in DOMAIN after \cup {a \in Ancestors(p) : IsDirectory(files, a)} |->
        IF q \in DOMAIN after THEN after[q] ELSE Directory(by)]

\* mv into an existing directory keeps the name of what is moved; "." is
\* the workspace.
MvTarget(files, old, new) ==
    IF new = <<".">> THEN Basename(old)
    ELSE IF IsDirectory(files, new) THEN new \o <<"/">> \o Basename(old)
    ELSE new

\* mv /workspace/<old> /workspace/<new> exits nonzero when old is not there
\* ('No such file or directory'), when it would land on or in itself, when
\* the directory it should land in is missing, and when it would replace a
\* directory that is not an empty one replaced by a directory.
MvFails(files, old, new) ==
    LET target == MvTarget(files, old, new)
    IN  \/ ~Exists(files, old)
        \/ target = old
        \/ Under(old, target)
        \/ \E q \in Ancestors(target) : ~IsDirectory(files, q)
        \/ /\ IsDirectory(files, target)
           /\ ~(/\ IsDirectory(files, old)
                /\ ~\E q \in DOMAIN files : Under(target, q))
        \/ /\ IsDirectory(files, old)
           /\ target \in DOMAIN files /\ ~files[target].dir

Mv(files, old, new, by) ==
    LET target == MvTarget(files, old, new)
        Moved(q) == IF q = old THEN target
                    ELSE IF Under(old, q)
                         THEN target \o SubSeq(q, Len(old) + 1, Len(q))
                         ELSE q
        stays == {q \in DOMAIN files : Moved(q) = q /\ q # target}
        moves == {q \in DOMAIN files : Moved(q) # q}
        after == [r \in stays \cup {Moved(q) : q \in moves} \cup {target} |->
                     IF r \in stays THEN files[r]
                     ELSE IF \E q \in moves : Moved(q) = r
                          THEN files[CHOOSE q \in moves : Moved(q) = r]
                          ELSE Directory(by)]
    IN  KeepAncestors(files, after, old, by)

\* rm -rf /workspace/<p> exits nonzero for "." ('refusing to remove '.' or
\* '..' directory') and for the empty path, the mount point itself ('Device
\* or resource busy'), whose content it has removed by then.
RmFails(p) == p \in {<<>>, <<".">>}

Rm(files, p, by) ==
    IF p = <<".">> THEN files
    ELSE IF p = <<>> THEN EmptyMap
    ELSE KeepAncestors(files,
             [q \in {r \in DOMAIN files : r # p /\ ~Under(p, r)} |-> files[q]],
             p, by)

DirectoryCreationFailed == <<"Directory creation failed">>

RenameFailed == <<"Rename failed">>

PathFrame ==
    UNCHANGED <<socketUserMap, userSocketMap, connected, closure,
                userContainers, userShells, containers, shellEnded, nextCall,
                budget, terminal, evaluated, phase>>

\* The call is made: without a registered container createDirectory and
\* renamePath throw and deletePath returns; otherwise the exec is awaited.
StartPathCall(op, userId, caller, sock, path, newPath) ==
    /\ LET c == Call(nextCall, op, caller, userId, sock, "exec", path,
                     newPath, path, <<>>, MapGet(userContainers, userId))
       IN  IF userId \in DOMAIN userContainers
           THEN calls' = calls \cup {c} /\ UNCHANGED finished
           ELSE /\ finished' = MapSet(finished, c.id,
                       IF op = "deletePath" THEN Outcome(c, TRUE, <<>>, 0)
                       ELSE Outcome(c, FALSE, ContainerNotFound, 0))
                /\ UNCHANGED calls
    /\ nextCall' = nextCall + 1

\* createDirectory: the stream of the mkdir exec ends; exit code 0 and no
\* error text resolve (after a chmod whose failure is only logged).  POST
\* /files/create then awaits cleanupDuplicateFiles.
MkdirExec(c) ==
    /\ c.op = "createDirectory" /\ c.pc = "exec"
    /\ LET files == Workspace(c.container)
       IN  IF ~Running(c.container)
           THEN /\ calls' = calls \ {c}
                /\ finished' = MapSet(finished, c.id,
                                      Outcome(c, FALSE, RuntimeError, 0))
                /\ UNCHANGED <<hostFiles, emitted, timers>>
           ELSE IF MkdirFails(files, c.path)
                THEN /\ calls' = calls \ {c}
                     /\ finished' = MapSet(finished, c.id,
                            Outcome(c, FALSE, DirectoryCreationFailed, 0))
                     /\ UNCHANGED <<hostFiles, emitted, timers>>
                ELSE /\ hostFiles' =
                            [hostFiles EXCEPT ![containers[c.container].bind] =
                                Mkdir(files, c.path, c.container)]
                     /\ IF c.caller = "http" /\ c.user \in DOMAIN userContainers
                        THEN /\ calls' = (calls \ {c}) \cup
                                   {[c EXCEPT !.pc = "cleanup",
                                              !.container = userContainers[c.user]]}
                             /\ UNCHANGED <<finished, emitted, timers>>
                        ELSE WriteHandled(c)
    /\ PathFrame

\* renamePath: the stream of the mv exec ends.
MvExec(c) ==
    /\ c.op = "renamePath" /\ c.pc = "exec"
    /\ calls' = calls \ {c}
    /\ LET files == Workspace(c.container)
       IN  IF ~Running(c.container)
           THEN /\ finished' = MapSet(finished, c.id,
                                      Outcome(c, FALSE, RuntimeError, 0))
                /\ UNCHANGED hostFiles
           ELSE IF MvFails(files, c.path, c.arg)
                THEN /\ finished' = MapSet(finished, c.id,
                                           Outcome(c, FALSE, RenameFailed, 0))
                     /\ UNCHANGED hostFiles
                ELSE /\ finished' = MapSet(finished, c.id,
                                           Outcome(c, TRUE, <<>>, 0))
                     /\ hostFiles' =
                            [hostFiles EXCEPT ![containers[c.container].bind] =
                                Mv(files, c.path, c.arg, c.container)]
    /\ UNCHANGED <<emitted, timers>>
    /\ PathFrame

\* deletePath: the stream of the rm exec ends and the call resolves; neither
\* the exit code nor the output is looked at.
RmExec(c) ==
    /\ c.op = "deletePath" /\ c.pc = "exec"
    /\ calls' = calls \ {c}
    /\ IF ~Running(c.container)
       THEN /\ finished' = MapSet(finished, c.id,
                                  Outcome(c, FALSE, RuntimeError, 0))
            /\ UNCHANGED hostFiles
       ELSE /\ finished' = MapSet(finished, c.id, Outcome(c, TRUE, <<>>, 0))
            /\ hostFiles' =
                   [hostFiles EXCEPT ![containers[c.container].bind] =
                       Rm(Workspace(c.container), c.path, c.container)]
    /\ UNCHANGED <<emitted, timers>>
    /\ PathFrame

ApiPathCall(op, userId, path, newPath) ==
    /\ budget.api > 0
    /\ budget' = [budget EXCEPT !.api = @ - 1]
    /\ StartPathCall(op, userId, "api", 0, path, newPath)
    /\ ApiFrame
    /\ UNCHANGED <<emitted, userContainers, userShells, containers, shellEnded,
                   hostFiles, terminal, evaluated, timers, phase>>

ApiCreateDirectory(userId, path) ==
    ApiPathCall("createDirectory", userId, path, <<>>)

ApiRenamePath(userId, oldPath, newPath) ==
    ApiPathCall("renamePath", userId, oldPath, newPath)

ApiDeletePath(userId, path) == ApiPathCall("deletePath", userId, path, <<>>)

ab == <<"a", "/", "b">>

OperatedPaths == { <<"a">>, ab, <<".">> }

StepPaths(c) ==
    \/ CreateContainer(c)
    \/ StartContainer(c)
    \/ ChmodWorkspace(c)
    \/ AttachShell(c)
    \/ PutArchive(c)
    \/ SyncWorkspace(c)
    \/ MkdirExec(c)
    \/ MvExec(c)
    \/ RmExec(c)

\* A caller of DockerManager that awaits every call before the next.
NextPaths ==
    \/ \E userId \in 1..MaxUsers :
           calls = {} /\ ApiCreateUserContainer(userId)
    \/ \E userId \in 1..MaxUsers :
           calls = {} /\ ApiWriteFileToContainer(userId, <<"b">>, <<"a">>)
    \/ \E userId \in 1..MaxUsers, path \in OperatedPaths :
           calls = {} /\ ApiCreateDirectory(userId, path)
    \/ \E userId \in 1..MaxUsers, oldPath \in OperatedPaths \cup {<<"b">>},
          newPath \in OperatedPaths :
           calls = {} /\ ApiRenamePath(userId, oldPath, newPath)
    \/ \E userId \in 1..MaxUsers, path \in OperatedPaths :
           calls = {} /\ ApiDeletePath(userId, path)
    \/ \E c \in calls : StepPaths(c)

SpecPaths == InitSequential /\ [][NextPaths]_vars

-----------------------------------------------------------------------------
(* One session: a file change, then a read of the same path                *)

RECURSIVE StringsUpTo(_, _)
StringsUpTo(chars, n) ==
    IF n = 0 THEN {<<>>}
    ELSE LET shorter == StringsUpTo(chars, n - 1)
         IN  shorter \cup {Append(s, ch) : s \in shorter, ch \in chars}

print1 == <<"p", "r", "i", "n", "t", "(", "1", ")">>

mainPy == <<"m", "a", "i", "n", ".", "p", "y">>

RoundTripPaths ==
    {mainPy} \cup {p \in StringsUpTo({"a", ".", "j"}, MaxPathLen) :
                      p # <<>> /\ Head(p) = "a"}

RoundTripContents ==
    {print1} \cup StringsUpTo({"a", "\r", "\n", NotFoundPhrase}, 2)

InitRoundTrip ==
    /\ InitCommon
    /\ budget = [connections |-> 1, events |-> 3, api |-> 0]

Written == {id \in DOMAIN finished : finished[id].op = "file:change"}

ReadBack == {id \in DOMAIN finished : finished[id].op = "readFileFromContainer"}

\* onFileChange for a ready session, with nothing else under way.
RoundTripWrite(sock, path, content) ==
    /\ closure[sock].containerReady
    /\ calls = {}
    /\ Written = {}
    /\ FileChange(sock, path, content)

\* getFileContent of the path written, once the write has returned.
RoundTripRead(sock, id) ==
    /\ calls = {}
    /\ ReadBack = {}
    /\ GetFileContent(sock, finished[id].raw)

StepRoundTrip(c) ==
    \/ CreateContainer(c)
    \/ StartContainer(c)
    \/ ChmodWorkspace(c)
    \/ AttachShell(c)
    \/ PutArchive(c)
    \/ SyncWorkspace(c)
    \/ CleanupDuplicateFiles(c)
    \/ CatFile(c)

NextRoundTrip ==
    \/ Connection
    \/ \E sock \in connected, path \in RoundTripPaths, content \in RoundTripContents :
           RoundTripWrite(sock, path, content)
    \/ \E sock \in connected, id \in Written : RoundTripRead(sock, id)
    \/ \E c \in calls : StepRoundTrip(c)
    \/ \E t \in timers : RefreshTimer(t)

SpecRoundTrip == InitRoundTrip /\ [][NextRoundTrip]_vars

-----------------------------------------------------------------------------
(* The terminal: index.ts handlers, DockerManager.sendToShell, the stream  *)

\* A lookup that returns whichever shell stream is registered.
ShellOfAnyUser(userId) ==
    IF DOMAIN userShells = {} THEN 0
    ELSE userShells[CHOOSE u \in DOMAIN userShells : TRUE]

\* this.userShells.get(userId); 0: undefined
ShellOf(userId) == MapGet(userShells, userId)

\* DockerManager.sendToShell: shell.write(data) if the user has a shell stream.
\* from is the number of the client event the data came with.
sendToShell(userId, event, data, from) ==
    IF ShellOf(userId) # 0
    THEN Append(terminal.input, [shell |-> ShellOf(userId), event |-> event,
                                 data |-> data, from |-> from])
    ELSE terminal.input

NotReadyNotice == <<"Container not ready yet, please wait...\r\n$ ">>

TerminalEvents == {"terminal:data", "terminal:write", "terminal:paste"}

TerminalChunks == { <<"l", "s">>, <<"p", "w", "d">> }

\* socket.on('terminal:data' / 'terminal:write' / 'terminal:paste'): nothing
\* is forwarded before containerReady; 'terminal:write' then answers with a
\* notice and, when ready, appends a newline to the data.
TerminalInput(sock, event, data) ==
    /\ sock \in connected
    /\ budget.events > 0
    /\ budget' = [budget EXCEPT !.events = @ - 1]
    /\ LET userId == closure[sock].userId
           ready == closure[sock].containerReady
           from == Len(terminal.received) + 1
           receipt == [sock |-> sock, event |-> event, data |-> data,
                       ready |-> ready,
                       shell |-> MapGet(userShells, userId),
                       attached |-> /\ userId \in DOMAIN userShells
                                    /\ userShells[userId] \notin shellEnded]
       IN  terminal' = [terminal EXCEPT
               !.received = Append(@, receipt),
               !.input =
                   IF ready
                   THEN sendToShell(userId, event,
                            IF event = "terminal:write" THEN data \o <<"\n">>
                            ELSE data, from)
                   ELSE @,
               !.sent =
                   IF ~ready /\ event = "terminal:write"
                   THEN Append(@, [sock |-> sock, shell |-> 0,
                                   text |-> NotReadyNotice])
                   ELSE @]
    /\ UNCHANGED <<socketUserMap, userSocketMap, connected, closure, emitted,
                   userContainers, userShells, containers, shellEnded,
                   hostFiles, calls, finished, nextCall, evaluated, timers,
                   phase>>

\* Buffer.prototype.toString(): UTF-8 decoding of bytes below 0xE0; a byte
\* that is no part of a well-formed sequence becomes U+FFFD.
RECURSIVE toString(_)
toString(bytes) ==
    IF bytes = <<>> THEN <<>>
    ELSE IF bytes[1] < 128 THEN <<bytes[1]>> \o toString(Tail(bytes))
    ELSE IF /\ bytes[1] \in 194..223
            /\ Len(bytes) >= 2
            /\ bytes[2] \in 128..191
         THEN <<(bytes[1] - 192) * 64 + (bytes[2] - 128)>>
                  \o toString(Tail(Tail(bytes)))
         ELSE <<65533>> \o toString(Tail(bytes))

\* The bytes socket.io sends for a string: its UTF-8 encoding.
RECURSIVE Utf8Encode(_)
Utf8Encode(text) ==
    IF text = <<>> THEN <<>>
    ELSE (IF text[1] < 128 THEN <<text[1]>>
          ELSE IF text[1] < 2048
               THEN <<192 + (text[1] \div 64), 128 + (text[1] % 64)>>
               ELSE <<224 + (text[1] \div 4096),
                      128 + ((text[1] \div 64) % 64),
                      128 + (text[1] % 64)>>)
         \o Utf8Encode(Tail(text))

\* What the shell process writes in one chunk: "h", "é" (0xC3 0xA9), or the
\* first byte of an "é" whose second byte comes with the next chunk.
ShellChunks == { <<104>>, <<195, 169>>, <<195>> }

LiveShells ==
    {userShells[u] : u \in DOMAIN userShells} \ shellEnded

\* The process in the sandbox writes a chunk to its terminal; the stream
\* buffers it.
ShellProduces(shell, chunk) ==
    /\ Running(shell)
    /\ Len(terminal.produced) < MaxChunks
    /\ terminal' = [terminal EXCEPT
           !.produced = Append(@, [shell |-> shell, chunk |-> chunk]),
           !.pending = Append(@, [shell |-> shell, chunk |-> chunk])]
    /\ UNCHANGED <<socketUserMap, userSocketMap, connected, closure, emitted,
                   userContainers, userShells, containers, shellEnded,
                   hostFiles, calls, finished, nextCall, budget, evaluated, timers,
                   phase>>

RECURSIVE EmitToAll(_, _, _, _)
EmitToAll(sent, socks, shell, text) ==
    IF socks = {} THEN sent
    ELSE LET sock == CHOOSE x \in socks : \A y \in socks : x <= y
         IN  EmitToAll(IF sock \in connected
                       THEN Append(sent, [sock |-> sock, shell |-> shell,
                                          text |-> text])
                       ELSE sent,
                       socks \ {sock}, shell, text)

FirstPending(shell) ==
    CHOOSE i \in 1..Len(terminal.pending) :
        /\ terminal.pending[i].shell = shell
        /\ \A j \in 1..(i - 1) : terminal.pending[j].shell # shell

\* The stream flows once it has a 'data' listener: shell.on('data', chunk =>
\* socket.emit('terminal:data', chunk.toString())).
ShellData(shell) ==
    /\ \E i \in 1..Len(terminal.pending) : terminal.pending[i].shell = shell
    /\ \E l \in terminal.listeners : l[1] = shell
    /\ LET i == FirstPending(shell)
           socks == {l[2] : l \in {m \in terminal.listeners : m[1] = shell}}
       IN  terminal' = [terminal EXCEPT
               !.pending = SubSeq(@, 1, i - 1) \o SubSeq(@, i + 1, Len(@)),
               !.sent = EmitToAll(@, socks, shell,
                                  toString(terminal.pending[i].chunk))]
    /\ UNCHANGED <<socketUserMap, userSocketMap, connected, closure, emitted,
                   userContainers, userShells, containers, shellEnded,
                   hostFiles, calls, finished, nextCall, budget, evaluated, timers,
                   phase>>

StepTerminal(c) ==
    \/ CreateContainer(c)
    \/ StartContainer(c)
    \/ ChmodWorkspace(c)
    \/ AttachShell(c)
    \/ StopContainer(c)
    \/ RemoveContainer(c)

\* The server with clients that type.
NextTerminal ==
    \/ Connection
    \/ \E sock \in connected : Disconnect(sock)
    \/ \E sock \in connected, event \in TerminalEvents, data \in TerminalChunks :
           TerminalInput(sock, event, data)
    \/ \E c \in calls : StepTerminal(c)

SpecTerminal == Init /\ [][NextTerminal]_vars

InitShellOutput ==
    /\ InitCommon
    /\ budget = [connections |-> 1, events |-> 2, api |-> 0]

\* One session whose shell writes to its terminal.
NextShellOutput ==
    \/ Connection
    \/ \E sock \in connected : Disconnect(sock)
    \/ \E shell \in LiveShells, chunk \in ShellChunks : ShellProduces(shell, chunk)
    \/ \E shell \in DOMAIN containers : ShellData(shell)
    \/ \E c \in calls : StepTerminal(c)

SpecShellOutput == InitShellOutput /\ [][NextShellOutput]_vars

-----------------------------------------------------------------------------
(* One session whose user also creates files from the terminal             *)

\* listFiles: the short extensions that are taken for legitimate.
validSingleExtensions ==
    { <<"c">>, <<"r">>, <<"g", "o">>, <<"h">>, <<"m">>, <<"d">>, <<"s">>,
      <<"f">>, <<"v">>, <<"l">>, <<"y">> }

\* name.split('.').pop()
RECURSIVE Extension(_)
Extension(name) ==
    IF Includes(name, <<".">>) THEN Extension(Tail(name)) ELSE name

aC == <<"a", ".", "c">>

aGo == <<"a", ".", "g", "o">>

ShellPaths == {aC, aGo, <<"a", ".", "j">>}

\* The shell runs a command that was written to it (touch, gcc -o, an
\* editor, ...) and the command creates a file in /workspace.
ShellCreatesFile(shell, path) ==
    /\ Running(shell)
    /\ \E i \in 1..Len(terminal.input) : terminal.input[i].shell = shell
    /\ path \notin DOMAIN hostFiles[containers[shell].bind]
    /\ hostFiles' = [hostFiles EXCEPT ![containers[shell].bind] =
                        MapSet(@, path, [content |-> <<>>, by |-> shell,
                                         dir |-> FALSE])]
    /\ UNCHANGED <<socketUserMap, userSocketMap, connected, closure, emitted,
                   userContainers, userShells, containers, shellEnded, calls,
                   finished, nextCall, budget, terminal, evaluated, timers,
                   phase>>

srcJ == <<"s", ".", "j">>

\* The command is a mkdir: the directory is named as a truncated file is.
ShellCreatesDirectory(shell, path) ==
    /\ Running(shell)
    /\ \E i \in 1..Len(terminal.input) : terminal.input[i].shell = shell
    /\ path \notin DOMAIN hostFiles[containers[shell].bind]
    /\ hostFiles' = [hostFiles EXCEPT ![containers[shell].bind] =
                        MapSet(@, path, [content |-> <<>>, by |-> shell,
                                         dir |-> TRUE])]
    /\ UNCHANGED <<socketUserMap, userSocketMap, connected, closure, emitted,
                   userContainers, userShells, containers, shellEnded, calls,
                   finished, nextCall, budget, terminal, evaluated, timers,
                   phase>>

InitShellFiles ==
    /\ InitCommon
    /\ budget = [connections |-> 1, events |-> 3, api |-> 0]

StepShellFiles(c) ==
    \/ CreateContainer(c)
    \/ StartContainer(c)
    \/ ChmodWorkspace(c)
    \/ AttachShell(c)
    \/ PutArchive(c)
    \/ SyncWorkspace(c)
    \/ CleanupDuplicateFiles(c)

NextShellFiles ==
    \/ Connection
    \/ \E sock \in connected, event \in TerminalEvents, data \in TerminalChunks :
           TerminalInput(sock, event, data)
    \/ \E shell \in LiveShells, path \in ShellPaths : ShellCreatesFile(shell, path)
    \/ \E shell \in LiveShells : ShellCreatesDirectory(shell, srcJ)
    \/ \E sock \in connected, path \in SessionPaths, content \in SessionContents :
           FileChange(sock, path, content)
    \/ \E c \in calls : StepShellFiles(c)
    \/ \E t \in timers : RefreshTimer(t)

SpecShellFiles == InitShellFiles /\ [][NextShellFiles]_vars

-----------------------------------------------------------------------------
(* One session whose client saves files                                    *)

InitFileSave ==
    /\ InitCommon
    /\ budget = [connections |-> 1, events |-> 3, api |-> 0]

StepFileSave(c) ==
    \/ CreateContainer(c)
    \/ StartContainer(c)
    \/ ChmodWorkspace(c)
    \/ AttachShell(c)
    \/ StopContainer(c)
    \/ RemoveContainer(c)
    \/ PutArchive(c)
    \/ SyncWorkspace(c)
    \/ CleanupDuplicateFiles(c)
    \/ SaveSync(c)

\* The client saves through the handler of index.ts or, against the server
\* of server/index.ts, through the handler of that file.
NextFileSave ==
    \/ Connection
    \/ \E sock \in connected : Disconnect(sock)
    \/ \E sock \in connected, path \in SessionPaths, content \in SessionContents :
           FileSave(sock, path, content)
    \/ \E sock \in connected, path \in SessionPaths, content \in SessionContents :
           ServerFileSave(sock, path, content)
    \/ \E c \in calls : StepFileSave(c)

SpecFileSave == InitFileSave /\ [][NextFileSave]_vars

-----------------------------------------------------------------------------
(* One client writing with file:change and file:save, the event loop        *)
(* running every continuation and timer that is due                         *)

NextWrites ==
    \/ Connection
    \/ \E sock \in connected : Disconnect(sock)
    \/ \E sock \in connected, path \in SessionPaths, content \in SessionContents :
           FileChange(sock, path, content)
    \/ \E sock \in connected, path \in SessionPaths, content \in SessionContents :
           FileSave(sock, path, content)
    \/ \E c \in calls : StepFileSave(c)
    \/ \E t \in timers : RefreshTimer(t)

\* The runtime answers every call and Node runs every timer callback.
SpecWrites ==
    /\ InitFileSave
    /\ [][NextWrites]_vars
    /\ WF_vars(\E c \in calls : StepFileSave(c))
    /\ WF_vars(\E t \in timers : RefreshTimer(t))

-----------------------------------------------------------------------------
(* fixIncompleteExtension and ultraCleanContent applied to given arguments *)

packagePy == <<"p", "a", "c", "k", "a", "g", "e", ".", "p", "y">>

aJson == <<"a", ".", "j", "s", "o", "n">>

CleanedPaths ==
    {mainPy, packagePy, packageJson, aJson}
        \cup (StringsUpTo({"a", ".", "j"}, MaxPathLen) \ {<<>>})

CleanedContents ==
    {print1, DefaultPackageJson}
        \cup StringsUpTo({"a", "1", "\r", "\n", "\"", EscapedEAcute, EAcute},
                         MaxContentLen)

ServerIdle ==
    UNCHANGED <<socketUserMap, userSocketMap, connected, closure, emitted,
                userContainers, userShells, containers, shellEnded, hostFiles,
                calls, finished, nextCall, budget, terminal, timers, phase>>

InitEvaluate ==
    /\ InitServer
    /\ budget = [connections |-> 0, events |-> 0, api |-> 0]
    /\ \E filePath \in CleanedPaths : \E content \in CleanedContents :
           evaluated = [fn |-> "input", filePath |-> filePath,
                        content |-> content, result |-> <<>>, again |-> <<>>]

EvaluateFixIncompleteExtension ==
    /\ evaluated.fn = "input"
    /\ evaluated' = [evaluated EXCEPT
                        !.fn = "fixIncompleteExtension",
                        !.result = fixIncompleteExtension(evaluated.filePath)]
    /\ ServerIdle

EvaluateUltraCleanContent ==
    /\ evaluated.fn = "input"
    /\ evaluated' = [evaluated EXCEPT
                        !.fn = "ultraCleanContent",
                        !.result = ultraCleanContent(evaluated.content,
                                                     evaluated.filePath)]
    /\ ServerIdle

EvaluateDockerManagerUltraCleanContent ==
    /\ evaluated.fn = "input"
    /\ evaluated' = [evaluated EXCEPT
                        !.fn = "DockerManager.ultraCleanContent",
                        !.result = DockerManager_ultraCleanContent(
                                       evaluated.content, evaluated.filePath)]
    /\ ServerIdle

\* The result of a cleaning is cleaned once more, for the same path.
EvaluateUltraCleanContentAgain ==
    /\ evaluated.fn = "ultraCleanContent"
    /\ evaluated' = [evaluated EXCEPT
                        !.fn = "ultraCleanContent twice",
                        !.again = ultraCleanContent(evaluated.result,
                                                    evaluated.filePath)]
    /\ ServerIdle

EvaluateDockerManagerUltraCleanContentAgain ==
    /\ evaluated.fn = "DockerManager.ultraCleanContent"
    /\ evaluated' = [evaluated EXCEPT
                        !.fn = "DockerManager.ultraCleanContent twice",
                        !.again = DockerManager_ultraCleanContent(
                                      evaluated.result, evaluated.filePath)]
    /\ ServerIdle

\* The path the routing layer repaired is repaired once more, as
\* writeFileToContainer and readFileFromContainer do with the path they get.
EvaluateFixIncompleteExtensionAgain ==
    /\ evaluated.fn = "fixIncompleteExtension"
    /\ evaluated' = [evaluated EXCEPT
                        !.fn = "fixIncompleteExtension twice",
                        !.again = fixIncompleteExtension(evaluated.result)]
    /\ ServerIdle

NextEvaluate ==
    \/ EvaluateFixIncompleteExtension
    \/ EvaluateFixIncompleteExtensionAgain
    \/ EvaluateUltraCleanContent
    \/ EvaluateDockerManagerUltraCleanContent
    \/ EvaluateUltraCleanContentAgain
    \/ EvaluateDockerManagerUltraCleanContentAgain

SpecEvaluate == InitEvaluate /\ [][NextEvaluate]_vars

-----------------------------------------------------------------------------
(* CloudStorageService.initialize, called on a service just constructed     *)

\* The MinIO server is reachable or not, and the bucket 'user-files' is there
\* or not; isConnected is false in a service just constructed.
InitCloud ==
    /\ InitServer
    /\ budget = [connections |-> 0, events |-> 0, api |-> 0]
    /\ \E up \in BOOLEAN, bucket \in BOOLEAN :
           evaluated = [fn |-> "CloudStorageService.initialize",
                        pc |-> "constructed", retries |-> 0, attempts |-> 0,
                        isConnected |-> FALSE, listed |-> FALSE,
                        bucketFailed |-> FALSE, created |-> FALSE,
                        minio |-> [up |-> up, bucket |-> bucket]]

\* The server becomes unreachable, or reachable again.
MinioChanges ==
    /\ evaluated.fn = "CloudStorageService.initialize"
    /\ evaluated' = [evaluated EXCEPT !.minio.up = ~@]
    /\ ServerIdle

\* initialize() is called: let retries = 5 and the first listBuckets.
CloudInitialize ==
    /\ evaluated.pc = "constructed"
    /\ evaluated' = [evaluated EXCEPT !.pc = "listBuckets", !.retries = 5]
    /\ ServerIdle

\* How the outer catch leaves the service: isConnected = false, and the
\* promise of initialize resolves.
InitializeFailed(service) ==
    [service EXCEPT !.pc = "returned", !.isConnected = FALSE]

\* await this.client.listBuckets() settles: resolved, the loop is left with
\* isConnected set; rejected, retries is decremented and the loop waits two
\* seconds or, with no retry left, ends and the error of line 51 is thrown
\* into the outer catch.
ListBuckets ==
    /\ evaluated.pc = "listBuckets"
    /\ evaluated' =
         LET tried == [evaluated EXCEPT !.attempts = @ + 1]
         IN  IF evaluated.minio.up
             THEN [tried EXCEPT !.isConnected = TRUE, !.listed = TRUE,
                                !.pc = "bucketExists"]
             ELSE IF evaluated.retries - 1 > 0
                  THEN [tried EXCEPT !.retries = @ - 1, !.pc = "wait"]
                  ELSE IF tried.isConnected
                       THEN [tried EXCEPT !.retries = @ - 1,
                                          !.pc = "bucketExists"]
                       ELSE InitializeFailed([tried EXCEPT !.retries = @ - 1])
    /\ ServerIdle

\* The callback of setTimeout(resolve, 2000): the next turn of the loop.
RetryWait ==
    /\ evaluated.pc = "wait"
    /\ evaluated' = [evaluated EXCEPT !.pc = "listBuckets"]
    /\ ServerIdle

\* A bucketExists that rejects and leaves isConnected as it is.
BucketExistsKeepsFlag ==
    /\ evaluated.pc = "bucketExists"
    /\ evaluated' =
         IF evaluated.minio.up
         THEN [evaluated EXCEPT !.pc = IF evaluated.minio.bucket
                                       THEN "returned" ELSE "makeBucket"]
         ELSE [evaluated EXCEPT !.pc = "returned", !.bucketFailed = TRUE]
    /\ ServerIdle

\* await this.client.bucketExists(this.bucketName) settles; a rejection goes
\* to the outer catch.
BucketExists ==
    /\ evaluated.pc = "bucketExists"
    /\ evaluated' =
         IF evaluated.minio.up
         THEN [evaluated EXCEPT !.pc = IF evaluated.minio.bucket
                                       THEN "returned" ELSE "makeBucket"]
         ELSE InitializeFailed([evaluated EXCEPT !.bucketFailed = TRUE])
    /\ ServerIdle

\* await this.client.makeBucket(this.bucketName) settles.
MakeBucket ==
    /\ evaluated.pc = "makeBucket"
    /\ evaluated' =
         IF evaluated.minio.up
         THEN [evaluated EXCEPT !.pc = "returned", !.created = TRUE,
                                !.minio.bucket = TRUE]
         ELSE InitializeFailed([evaluated EXCEPT !.bucketFailed = TRUE])
    /\ ServerIdle

NextCloud ==
    \/ MinioChanges
    \/ CloudInitialize
    \/ ListBuckets
    \/ RetryWait
    \/ BucketExists
    \/ MakeBucket

\* Every request to MinIO is answered or fails, and the timer fires.
SpecCloud ==
    /\ InitCloud
    /\ [][NextCloud]_vars
    /\ WF_vars(ListBuckets)
    /\ WF_vars(RetryWait)
    /\ WF_vars(BucketExists)
    /\ WF_vars(MakeBucket)

-----------------------------------------------------------------------------
(* ProjectService: the project and file records of two users                *)

\* The projects created in one run.
MaxProjects == 2

ProjectUsers == {1, 2}

ProjectNames == {"n", "m"}

ProjectPaths == {"f"}

FileSizes == {0, 1}

AccessDenied == "not found or access denied"

AlreadyExists == "already exists"

\* The rows of the tables of projects and of files, the number of projects
\* created so far (the id of each is new), and the call made last with its
\* error ("" when it returned).
InitProjects ==
    /\ InitServer
    /\ budget = [connections |-> 0, events |-> 0, api |-> 0]
    /\ evaluated = [fn |-> "ProjectService", projects |-> EmptyMap,
                    files |-> EmptyMap, created |-> 0,
                    last |-> [op |-> "none", projectId |-> 0, userId |-> 0,
                              error |-> ""]]

Called(op, projectId, userId, error) ==
    [op |-> op, projectId |-> projectId, userId |-> userId, error |-> error]

\* A findOne that leaves the user out of its where clause.
FindById(projectId, userId) ==
    projectId \in DOMAIN evaluated.projects

\* getProject: projectRepository.findOne({where: {id: projectId,
\* user: {id: userId}}}) finds a row.
FindOwned(projectId, userId) ==
    /\ projectId \in DOMAIN evaluated.projects
    /\ evaluated.projects[projectId].user = userId

\* The call throws before it has written anything.
Throws(op, projectId, userId, error) ==
    /\ evaluated' = [evaluated EXCEPT
                        !.last = Called(op, projectId, userId, error)]
    /\ ServerIdle

\* The call returns, the tables being as given.
Returns(op, projectId, userId, projects, files) ==
    /\ evaluated' = [evaluated EXCEPT
                        !.projects = projects, !.files = files,
                        !.last = Called(op, projectId, userId, "")]
    /\ ServerIdle

FilesOf(projectId) ==
    {k \in DOMAIN evaluated.files : k[1] = projectId}

createProject(userId, name) ==
    /\ evaluated.fn = "ProjectService"
    /\ LET projectId == evaluated.created + 1
       IN  /\ evaluated.created < MaxProjects
           /\ IF \E q \in DOMAIN evaluated.projects :
                    /\ evaluated.projects[q].user = userId
                    /\ evaluated.projects[q].name = name
              THEN Throws("createProject", 0, userId, AlreadyExists)
              ELSE /\ evaluated' =
                        [evaluated EXCEPT
                            !.projects = MapSet(@, projectId,
                                                [user |-> userId,
                                                 name |-> name,
                                                 status |-> "active"]),
                            !.created = projectId,
                            !.last = Called("createProject", projectId,
                                            userId, "")]
                   /\ ServerIdle

getProject(projectId, userId) ==
    /\ evaluated.fn = "ProjectService"
    /\ IF ~FindOwned(projectId, userId)
       THEN Throws("getProject", projectId, userId, AccessDenied)
       ELSE Returns("getProject", projectId, userId, evaluated.projects,
                    evaluated.files)

\* updates gives a name; what the query for a project of the
\* same name finds (its where clause names an operator, $ne, that the
\* repository does not have) is either outcome.
updateProject(projectId, userId, name) ==
    /\ evaluated.fn = "ProjectService"
    /\ IF ~FindOwned(projectId, userId)
       THEN Throws("updateProject", projectId, userId, AccessDenied)
       ELSE \E existingProject \in BOOLEAN :
              IF existingProject
              THEN Throws("updateProject", projectId, userId, AlreadyExists)
              ELSE Returns("updateProject", projectId, userId,
                           [evaluated.projects EXCEPT
                               ![projectId].name = name],
                           evaluated.files)

saveFileMetadata(projectId, userId, filePath, size) ==
    /\ evaluated.fn = "ProjectService"
    /\ IF ~FindOwned(projectId, userId)
       THEN Throws("saveFileMetadata", projectId, userId, AccessDenied)
       ELSE Returns("saveFileMetadata", projectId, userId, evaluated.projects,
                    MapSet(evaluated.files, <<projectId, filePath>>,
                           [size |-> size]))

deleteProject(projectId, userId) ==
    /\ evaluated.fn = "ProjectService"
    /\ IF ~FindOwned(projectId, userId)
       THEN Throws("deleteProject", projectId, userId, AccessDenied)
       ELSE Returns("deleteProject", projectId, userId,
                    MapDelete(evaluated.projects, projectId),
                    [k \in DOMAIN evaluated.files \ FilesOf(projectId) |->
                        evaluated.files[k]])

getFileMetadata(projectId, userId, filePath) ==
    /\ evaluated.fn = "ProjectService"
    /\ IF ~FindOwned(projectId, userId)
       THEN Throws("getFileMetadata", projectId, userId, AccessDenied)
       ELSE Returns("getFileMetadata", projectId, userId, evaluated.projects,
                    evaluated.files)

deleteFileMetadata(projectId, userId, filePath) ==
    /\ evaluated.fn = "ProjectService"
    /\ IF ~FindOwned(projectId, userId)
       THEN Throws("deleteFileMetadata", projectId, userId, AccessDenied)
       ELSE Returns("deleteFileMetadata", projectId, userId,
                    evaluated.projects,
                    MapDelete(evaluated.files, <<projectId, filePath>>))

ProjectIds == 1..(MaxProjects + 1)

NextProjects ==
    \/ \E userId \in ProjectUsers, name \in ProjectNames :
           createProject(userId, name)
    \/ \E projectId \in ProjectIds, userId \in ProjectUsers :
           getProject(projectId, userId)
    \/ \E projectId \in ProjectIds, userId \in ProjectUsers,
          name \in ProjectNames :
           updateProject(projectId, userId, name)
    \/ \E projectId \in ProjectIds, userId \in ProjectUsers,
          filePath \in ProjectPaths, size \in FileSizes :
           saveFileMetadata(projectId, userId, filePath, size)
    \/ \E projectId \in ProjectIds, userId \in ProjectUsers :
           deleteProject(projectId, userId)
    \/ \E projectId \in ProjectIds, userId \in ProjectUsers,
          filePath \in ProjectPaths :
           getFileMetadata(projectId, userId, filePath)
    \/ \E projectId \in ProjectIds, userId \in ProjectUsers,
          filePath \in ProjectPaths :
           deleteFileMetadata(projectId, userId, filePath)

SpecProjects == InitProjects /\ [][NextProjects]_vars

-----------------------------------------------------------------------------
(* toTree applied to given lists of raw entries                             *)

\* Array.from(new Set(items)): the first occurrence of each entry, in order.
RECURSIVE Unique(_)
Unique(items) ==
    IF items = <<>> THEN <<>>
    ELSE LET init == Unique(SubSeq(items, 1, Len(items) - 1))
             last == items[Len(items)]
         IN  IF \E i \in 1..Len(init) : init[i] = last THEN init
             ELSE Append(init, last)

\* The text of s before its first '|'.
RECURSIVE BeforeBar(_)
BeforeBar(s) ==
    IF s = <<>> \/ Head(s) = "|" THEN <<>> ELSE <<Head(s)>> \o BeforeBar(Tail(s))

\* item.split('|')[0] and [1]; [1] is undefined (here the empty text, which
\* the guard treats alike) when the item has no '|'.
SplitName(item) == BeforeBar(item)

SplitType(item) ==
    LET name == BeforeBar(item)
    IN  IF Len(name) = Len(item) THEN <<>>
        ELSE BeforeBar(SubSeq(item, Len(name) + 2, Len(item)))

\* The values of the tree: {} for a directory and null for a file.
EmptyTree == "{}"

Null == "null"

RECURSIVE BuildTree(_, _)
BuildTree(tree, items) ==
    IF items = <<>> THEN tree
    ELSE LET item == Head(items)
             name == SplitName(item)
             type == SplitType(item)
         IN  BuildTree(IF item = <<>> \/ name = <<>> \/ type = <<>> THEN tree
                       ELSE MapSet(tree, name,
                                   IF type = <<"d">> THEN EmptyTree ELSE Null),
                       Tail(items))

toTree(items) == BuildTree(EmptyMap, Unique(items))

\* `${name}|${isDir ? 'd' : 'f'}`
Item(name, kind) == name \o <<"|", kind>>

\* Names of files and directories; a name may hold any character but '/'.
ListedNames == { <<"a">>, <<"b">>, <<"a", "|", "b">> }

RawEntries == {Item(name, kind) : name \in ListedNames, kind \in {"d", "f"}}

RECURSIVE ListsUpTo(_, _)
ListsUpTo(entries, n) ==
    IF n = 0 THEN {<<>>}
    ELSE LET shorter == ListsUpTo(entries, n - 1)
         IN  shorter \cup {Append(l, e) : l \in shorter, e \in entries}

InitTree ==
    /\ InitServer
    /\ budget = [connections |-> 0, events |-> 0, api |-> 0]
    /\ \E items \in ListsUpTo(RawEntries, MaxItems) :
           evaluated = [fn |-> "input", items |-> items, result |-> EmptyMap]

EvaluateToTree ==
    /\ evaluated.fn = "input"
    /\ evaluated' = [evaluated EXCEPT !.fn = "toTree",
                                      !.result = toTree(evaluated.items)]
    /\ ServerIdle

SpecTree == InitTree /\ [][EvaluateToTree]_vars

-----------------------------------------------------------------------------
(* The HTTP routes /files, /files/create, /files/rename, /files/delete and  *)
(* /files/directory, with DockerManager.listFiles and listDirectory         *)

UserSessionNotFound == <<"User session not found">>

\* A lookup that still knows the socket ids of the sessions that are over.
EverRegistered(sock) == sock \in DOMAIN closure

\* socketUserMap.get(socketId) gives a user id.
Registered(sock) == sock \in DOMAIN socketUserMap

\* A route is requested with the socket id sock: for an id that is not in
\* socketUserMap it responds 400 'User session not found'; otherwise it goes
\* on as handled says.
HttpRoute(route, sock, path, arg, handled) ==
    /\ budget.events > 0
    /\ budget' = [budget EXCEPT !.events = @ - 1]
    /\ IF Registered(sock) THEN handled
       ELSE /\ finished' = MapSet(finished, nextCall,
                   Outcome(Call(nextCall, route, "http", 0, sock, "done", path,
                                arg, path, <<>>, 0),
                           FALSE, UserSessionNotFound, 0))
            /\ nextCall' = nextCall + 1
            /\ UNCHANGED calls
    /\ UNCHANGED <<socketUserMap, userSocketMap, connected, closure, emitted,
                   userContainers, userShells, containers, shellEnded,
                   hostFiles, terminal, evaluated, timers, phase>>

\* path.replace(/^\/+|\/+$/g, '')
RECURSIVE StripSlashes(_)
StripSlashes(path) ==
    IF StartsWith(path, <<"/">>) THEN StripSlashes(Tail(path))
    ELSE IF EndsWith(path, <<"/">>)
         THEN StripSlashes(SubSeq(path, 1, Len(path) - 1))
         ELSE path

\* POST /files/create: fullPath, from parentPath and path.
FullPath(parentPath, requestPath) ==
    IF parentPath = <<>> THEN requestPath
    ELSE IF StripSlashes(parentPath) = <<>> THEN StripSlashes(requestPath)
         ELSE StripSlashes(parentPath) \o <<"/">> \o StripSlashes(requestPath)

\* POST /files/create with type 'directory'.
CreatePath(sock, name, parentPath) ==
    HttpRoute("createPath", sock, name, parentPath,
              StartPathCall("createDirectory", MapGet(socketUserMap, sock),
                            "http", sock, FullPath(parentPath, name), <<>>))

\* POST /files/rename
RenamePath(sock, oldPath, newPath) ==
    HttpRoute("renamePath", sock, oldPath, newPath,
              StartPathCall("renamePath", MapGet(socketUserMap, sock),
                            "index", sock, oldPath, newPath))

\* DELETE /files/delete
DeletePath(sock, path) ==
    HttpRoute("deletePath", sock, path, <<>>,
              StartPathCall("deletePath", MapGet(socketUserMap, sock),
                            "index", sock, path, <<>>))

\* What listFiles and listDirectory keep of the names ls -la prints: not the
\* hidden ones, and not those with an extension of one character that is not
\* among validSingleExtensions.
Listed(name) ==
    /\ name # <<>>
    /\ Head(name) # "."
    /\ Includes(name, <<".">>)
       => ~(Len(Extension(name)) = 1 /\ Extension(name) \notin validSingleExtensions)

\* The names in the directory dir (<<>>: the workspace itself).
Children(files, dir) ==
    LET prefix == IF dir = <<>> THEN <<>> ELSE dir \o <<"/">>
        paths == DOMAIN files \cup UNION {Ancestors(q) : q \in DOMAIN files}
        Rest(q) == SubSeq(q, Len(prefix) + 1, Len(q))
    IN  {Rest(q) : q \in {r \in paths : /\ StartsWith(r, prefix)
                                        /\ Len(r) > Len(prefix)
                                        /\ ~Includes(Rest(r), <<"/">>)}}

\* The name listFiles leaves out as well.
workspace == <<"workspace">>

\* The entries listDirectory resolves with for ls -la /workspace/<dir>: none
\* when ls prints at most one line (dir is a file or is not there); and
\* those listFiles (op "getTree") resolves with for ls -la /workspace.
Listing(op, files, dir) ==
    IF dir # <<>> /\ ~IsDirectory(files, dir) THEN {}
    ELSE {Item(name,
               IF IsDirectory(files, IF dir = <<>> THEN name
                                     ELSE dir \o <<"/">> \o name)
               THEN "d" ELSE "f") :
             name \in {n \in Children(files, dir) :
                          Listed(n) /\ (op = "getTree" => n # workspace)}}

\* The entries of a listing as the array the route gets.
RECURSIVE SeqOf(_)
SeqOf(entries) ==
    IF entries = {} THEN <<>>
    ELSE LET e == CHOOSE x \in entries : TRUE
         IN  <<e>> \o SeqOf(entries \ {e})

\* What a listing call resolves with: items, and for GET /files the tree.
ListOutcome(c, items) ==
    [op |-> c.op, caller |-> c.caller, user |-> c.user, sock |-> c.sock,
     ok |-> TRUE, raw |-> c.raw, path |-> c.path, sent |-> c.content,
     content |-> <<>>, by |-> 0, items |-> items, tree |-> toTree(SeqOf(items))]

\* listDirectory is called (GET /files/directory), or cleanupDuplicateFiles
\* and then listFiles (GET /files): both return at once, listing nothing,
\* without a registered container.
StartList(op, userId, sock, path) ==
    /\ LET c == Call(nextCall, op, "index", userId, sock,
                     IF op = "getTree" THEN "cleanup" ELSE "exec", path, <<>>,
                     StripSlashes(path), <<>>, MapGet(userContainers, userId))
       IN  IF userId \in DOMAIN userContainers
           THEN calls' = calls \cup {c} /\ UNCHANGED finished
           ELSE /\ finished' = MapSet(finished, c.id, ListOutcome(c, {}))
                /\ UNCHANGED calls
    /\ nextCall' = nextCall + 1

\* The stream of the ls exec ends and the lines are parsed.
LsExec(c) ==
    /\ c.op \in {"listDirectory", "getTree"} /\ c.pc = "exec"
    /\ calls' = calls \ {c}
    /\ finished' = MapSet(finished, c.id,
           IF Running(c.container)
           THEN ListOutcome(c, Listing(c.op, Workspace(c.container), c.path))
           ELSE Outcome(c, FALSE, RuntimeError, 0))
    /\ UNCHANGED <<hostFiles, emitted, timers>>
    /\ PathFrame

\* GET /files/directory
GetDirectory(sock, path) ==
    HttpRoute("getDirectory", sock, path, <<>>,
              StartList("listDirectory", MapGet(socketUserMap, sock), sock, path))

\* GET /files
GetTree(sock) ==
    HttpRoute("getTree", sock, <<>>, <<>>,
              StartList("getTree", MapGet(socketUserMap, sock), sock, <<>>))

\* GET /files/content for a socket id that is not registered.
GetFileContentUnregistered(sock, rawPath) ==
    /\ ~Registered(sock)
    /\ HttpRoute("getFileContent", sock, rawPath, <<>>, FALSE)

DirectoryNames == { <<"u">>, <<".", "g">>, <<"a", ".", "b">>, workspace }

ParentPaths == { <<>>, <<"s">> }

RequestSockets == {SocketId(n) : n \in 1..MaxConnections}

InitHttp ==
    /\ InitCommon
    /\ budget = [connections |-> 1, events |-> 3, api |-> 0]

StepHttp(c) ==
    \/ CreateContainer(c)
    \/ StartContainer(c)
    \/ ChmodWorkspace(c)
    \/ AttachShell(c)
    \/ StopContainer(c)
    \/ RemoveContainer(c)
    \/ CleanupDuplicateFiles(c)
    \/ CatFile(c)
    \/ MkdirExec(c)
    \/ MvExec(c)
    \/ RmExec(c)
    \/ LsExec(c)

NextHttp ==
    \/ Connection
    \/ \E sock \in connected : Disconnect(sock)
    \/ \E sock \in RequestSockets : GetTree(sock)
    \/ \E sock \in RequestSockets, path \in SessionPaths :
           GetFileContent(sock, path) \/ GetFileContentUnregistered(sock, path)
    \/ \E sock \in RequestSockets, name \in DirectoryNames,
          parentPath \in ParentPaths : CreatePath(sock, name, parentPath)
    \/ \E sock \in RequestSockets, name \in DirectoryNames :
           RenamePath(sock, <<"s">>, name)
    \/ \E sock \in RequestSockets, path \in ParentPaths : DeletePath(sock, path)
    \/ \E sock \in RequestSockets, path \in ParentPaths : GetDirectory(sock, path)
    \/ \E c \in calls : StepHttp(c)

SpecHttp == InitHttp /\ [][NextHttp]_vars

-----------------------------------------------------------------------------
(* Properties                                                              *)

Sessions == {closure[sock].userId : sock \in DOMAIN closure}

InFlight(userId) == {c \in calls : c.user = userId}

\* The content of a file of the workspace of userId, <<"absent">> without it.
FileIn(userId, path) ==
    IF /\ hostPath(userId) \in DOMAIN hostFiles
       /\ path \in DOMAIN hostFiles[hostPath(userId)]
    THEN hostFiles[hostPath(userId)][path].content
    ELSE <<"absent">>

FileChanges(userId) ==
    {id \in DOMAIN finished :
        finished[id].op = "file:change" /\ finished[id].user = userId}

\* C1: two file-change events of one session for one path are applied in
\* submission order: once both have completed (and nothing else was written),
\* the file holds the cleaned content of the event submitted later.
C1_SubmissionOrder ==
    \A userId \in Sessions :
        \A first \in FileChanges(userId), later \in FileChanges(userId) :
            ( /\ first < later
              /\ finished[first].ok /\ finished[later].ok
              /\ finished[first].path = finished[later].path
              /\ calls = {}
              /\ \A id \in DOMAIN finished :
                     finished[id].op = "file:change" => id \in {first, later} )
            => FileIn(userId, finished[later].path) = finished[later].sent

\* C4: once the disconnect handler and every pending operation of a session
\* have completed, neither registry holds an entry for its id and no sandbox
\* of it is left running.
C4_DestroyedOnDisconnect ==
    \A sock \in DOMAIN closure :
        LET userId == closure[sock].userId
        IN  (sock \notin connected /\ InFlight(userId) = {})
            => /\ userId \notin DOMAIN userContainers
               /\ userId \notin DOMAIN userShells
               /\ \A k \in DOMAIN containers :
                      containers[k].name = ContainerName(userId)
                          => containers[k].state # "running"

\* C5: a session is reported ready (containerReady = true, 'terminal:ready')
\* only when both userContainers and userShells hold an entry for its id.
C5_ReadyOnlyWithShell ==
    [][\A sock \in DOMAIN closure :
          (~closure[sock].containerReady /\ closure'[sock].containerReady)
          => /\ closure[sock].userId \in DOMAIN userContainers'
             /\ closure[sock].userId \in DOMAIN userShells']_vars

MutualInverses ==
    /\ \A sock \in DOMAIN socketUserMap :
           /\ socketUserMap[sock] \in DOMAIN userSocketMap
           /\ userSocketMap[socketUserMap[sock]] = sock
    /\ \A userId \in DOMAIN userSocketMap :
           /\ userSocketMap[userId] \in DOMAIN socketUserMap
           /\ socketUserMap[userSocketMap[userId]] = userId

Returned == DOMAIN finished' \ DOMAIN finished

\* C2: a file written through handleFileChange in one session is never
\* returned by a read of another session: what a successful read returns was
\* written by the sandbox of the reading session.
C2_NoCrossSessionRead ==
    \A id \in DOMAIN finished :
        (finished[id].op = "readFileFromContainer" /\ finished[id].ok)
        => containers[finished[id].by].name = ContainerName(finished[id].user)

\* C3: when createUserContainer returns for an id whose earlier workspace was
\* destroyed, the new workspace holds no file written in the destroyed one.
C3_NoResidualFiles ==
    [][\A id \in Returned :
          LET userId == finished'[id].user
          IN  ( /\ finished'[id].op = "createUserContainer"
                /\ finished'[id].ok
                /\ userId \in DOMAIN userContainers' )
              => LET files == hostFiles'[containers'[userContainers'[userId]].bind]
                 IN  \A f \in DOMAIN files :
                         ~ /\ files[f].by # userContainers'[userId]
                           /\ containers'[files[f].by].state = "removed"
                           /\ containers'[files[f].by].name = ContainerName(userId)
      ]_vars

\* C7: while userContainers holds a live workspace for an id, a
\* createUserContainer for that id gets no sandbox from the runtime; at most
\* one sandbox exists per id, and the entry of a live workspace is never
\* replaced by another.
C7_NoSecondSandbox ==
    [][/\ \A k \in DOMAIN containers' : \A l \in DOMAIN containers' :
              ( /\ containers'[k].name = containers'[l].name
                /\ containers'[k].state # "removed"
                /\ containers'[l].state # "removed" ) => k = l
       /\ \A userId \in DOMAIN userContainers :
              (Running(userContainers[userId]) /\ userId \in DOMAIN userContainers')
              => userContainers'[userId] = userContainers[userId]
       /\ \A c \in calls :
              ( /\ c.op = "createUserContainer" /\ c.pc = "createContainer"
                /\ c.user \in DOMAIN userContainers
                /\ Running(userContainers[c.user]) )
              => ~ \E d \in calls' : d.id = c.id /\ d.pc = "start"
      ]_vars

\* A createUserContainer has failed for an id whose workspace, created by an
\* earlier call, is live.
C7_SecondCreateRejected ==
    \E first \in DOMAIN finished : \E second \in DOMAIN finished :
        /\ first < second
        /\ finished[first].op = "createUserContainer" /\ finished[first].ok
        /\ finished[second].op = "createUserContainer" /\ ~finished[second].ok
        /\ finished[first].user = finished[second].user
        /\ finished[first].user \in DOMAIN userContainers
        /\ Running(userContainers[finished[first].user])
        /\ calls = {}

\* C8: cleanupContainer never raises, and when it returns neither
\* userContainers nor userShells holds an entry for the id.
C8_CleanupLeavesNoEntry ==
    [][\A id \in Returned :
          finished'[id].op = "cleanupContainer"
          => /\ finished'[id].ok
             /\ finished'[id].user \notin DOMAIN userContainers'
             /\ finished'[id].user \notin DOMAIN userShells']_vars

\* C9: after a file change of a ready session has completed successfully,
\* with nothing else under way, getFileContent of the same path returns
\* exactly the cleaned content that was written.
C9_ReadsBackWhatWasWritten ==
    \A w \in Written : \A r \in ReadBack :
        finished[w].ok
        => finished[r].ok /\ finished[r].content = finished[w].sent

\* C11: client input is written to a shell only if it was received while
\* the session was ready and its shell channel attached, and then to that
\* channel; input received before the session was ready is never written,
\* neither when it is received nor later.
C11_InputOnlyWhileAttached ==
    /\ \A k \in 1..Len(terminal.input) :
           LET written == terminal.input[k]
               receipt == terminal.received[written.from]
           IN  /\ receipt.ready
               /\ receipt.attached
               /\ receipt.shell = written.shell
    /\ \A i \in 1..Len(terminal.received) :
           ~terminal.received[i].ready
           => \A k \in 1..Len(terminal.input) : terminal.input[k].from # i

\* A client has typed before its session was ready and again when it was, and
\* only the second input reached the shell.
C11_DroppedThenForwarded ==
    \E i \in 1..Len(terminal.received) : \E j \in 1..Len(terminal.received) :
        /\ i < j
        /\ terminal.received[i].sock = terminal.received[j].sock
        /\ ~terminal.received[i].ready
        /\ terminal.received[j].ready /\ terminal.received[j].attached
        /\ Len(terminal.input) = 1
        /\ terminal.input[1].from = j

\* C12: while a session's shell channel is attached, the chunks the shell
\* has produced and the stream has handed on were emitted to the session's
\* client once each, unmodified and in production order; and the keystroke
\* and paste chunks received were written to the shell once each, unmodified
\* and in arrival order.
C12_ChunksForwardedVerbatim ==
    \A sock \in connected :
        LET userId == closure[sock].userId
        IN  (closure[sock].containerReady /\ userId \in DOMAIN userShells)
            => LET shell == userShells[userId]
                   OfShell(x) == x.shell = shell
                   ToClient(x) == x.shell = shell /\ x.sock = sock
                   Typed(x) == /\ x.sock = sock /\ x.ready /\ x.attached
                               /\ x.event \in {"terminal:data", "terminal:paste"}
                   Keyed(x) == /\ x.shell = shell
                               /\ x.event \in {"terminal:data", "terminal:paste"}
                   produced == SelectSeq(terminal.produced, OfShell)
                   pending == SelectSeq(terminal.pending, OfShell)
                   sent == SelectSeq(terminal.sent, ToClient)
                   typed == SelectSeq(terminal.received, Typed)
                   keyed == SelectSeq(terminal.input, Keyed)
               IN  /\ Len(sent) = Len(produced) - Len(pending)
                   /\ \A i \in 1..Len(sent) :
                          Utf8Encode(sent[i].text) = produced[i].chunk
                   /\ Len(keyed) = Len(typed)
                   /\ \A i \in 1..Len(keyed) : keyed[i].data = typed[i].data

\* C13: a shell stream is ended at most once (the step that ends it also
\* forgets it, so no later cleanup can end it again), and once a session has
\* been torn down (its socket has disconnected and no call of it is under
\* way) every stream attached for it has been ended, so that a later
\* sendToShell finds no stream and writes nothing.
C13_ShellClosedOnceAtTeardown ==
    [][ /\ \A s \in shellEnded' \ shellEnded :
               \E userId \in DOMAIN userShells :
                   /\ userShells[userId] = s
                   /\ userId \notin DOMAIN userShells'
        /\ \A sock \in DOMAIN closure' :
               LET userId == closure'[sock].userId
               IN  ( /\ sock \notin connected'
                     /\ \A c \in calls' : c.user # userId
                     /\ userId \in DOMAIN userShells' )
                   => userShells'[userId] \in shellEnded'
      ]_vars

\* The events the file handlers of a connection emit; every other event a
\* socket is sent tells of its session ('terminal:ready' is the only one).
FileEvents ==
    {"file:refresh", "file:error", SavedEvent(TRUE), SavedEvent(FALSE)}

SessionEvents(sock) == {e \in emitted : e[1] = sock /\ e[2] \notin FileEvents}

\* C14: once the createUserSession of a connection has returned, its client
\* (while still connected) has been sent exactly one event about the
\* session: the ready signal or a failure event, never neither, never both.
C14_ReadyOrFailureEmitted ==
    \A id \in DOMAIN finished :
        ( /\ finished[id].op = "createUserContainer"
          /\ finished[id].caller = "index"
          /\ finished[id].sock \in connected )
        => Cardinality(SessionEvents(finished[id].sock)) = 1

\* C15: once a createUserContainer started by a connection has rejected and
\* the rejection has been handled, no registry (socketUserMap, userSocketMap,
\* userContainers, userShells) holds an entry of that session, the session
\* is not ready, and no other creation was started for its id.
C15_FailedSessionNotRegistered ==
    \A id \in DOMAIN finished :
        ( /\ finished[id].op = "createUserContainer"
          /\ finished[id].caller = "index"
          /\ ~finished[id].ok )
        => LET userId == finished[id].user
               sock == finished[id].sock
           IN  /\ sock \notin DOMAIN socketUserMap
               /\ userId \notin DOMAIN userSocketMap
               /\ userId \notin DOMAIN userContainers
               /\ userId \notin DOMAIN userShells
               /\ ~closure[sock].containerReady
               /\ \A c \in calls :
                      ~(c.op = "createUserContainer" /\ c.user = userId)
               /\ \A other \in DOMAIN finished :
                      ( /\ finished[other].op = "createUserContainer"
                        /\ finished[other].user = userId ) => other = id

\* C16: fixIncompleteExtension rewrites the final extension only: a path
\* that ends in a truncated extension of the table comes back with that
\* ending replaced by the complete extension and all before it unchanged,
\* and a path that ends in a complete extension comes back unchanged.
C16_OnlyFinalExtensionReplaced ==
    evaluated.fn = "fixIncompleteExtension"
    => \A i \in 1..Len(extensionMap) :
           LET incomplete == extensionMap[i][1]
               complete == extensionMap[i][2]
               filePath == evaluated.filePath
           IN  /\ EndsWith(filePath, incomplete)
                  => evaluated.result =
                         SubSeq(filePath, 1, Len(filePath) - Len(incomplete))
                             \o complete
               /\ EndsWith(filePath, complete)
                  => evaluated.result = filePath

\* C17: cleaning is idempotent: cleaning the result of a cleaning once more,
\* for the same path, gives that result again (both ultraCleanContent
\* functions, any path, the JSON paths included).
C17_CleaningIdempotent ==
    evaluated.fn \in {"ultraCleanContent twice",
                      "DockerManager.ultraCleanContent twice"}
    => evaluated.again = evaluated.result

\* C18: for a path that is no manifest path (it contains neither ".json" nor
\* "package"), either ultraCleanContent returns its input without the
\* characters outside 0x20-0x7E, newline and tab, and with one newline in the
\* place of every CRLF pair and of every lone carriage return; what is kept
\* keeps its order.
C18_FilteredAndNormalized ==
    ( /\ evaluated.fn \in {"ultraCleanContent",
                           "DockerManager.ultraCleanContent"}
      /\ ~Includes(evaluated.filePath, <<".", "j", "s", "o", "n">>)
      /\ ~Includes(evaluated.filePath, <<"p", "a", "c", "k", "a", "g", "e">>) )
    => LET whitelist == PrintableChars \cup {"\n", "\t"}
           lineEnds == Filter(evaluated.content, whitelist \cup {"\r"})
       IN  evaluated.result = NormalizeLineEndings(lineEnds)

\* C19: for the path package.json, a content whose filtered and normalized
\* text fails JSON.parse is replaced by the default manifest, which does not
\* depend on the content and parses.
C19_DefaultForInvalidManifest ==
    LET kept == IF evaluated.fn = "ultraCleanContent"
                THEN KeptByIndex ELSE KeptByDockerManager
        parsed == NormalizeLineEndings(Filter(evaluated.content, kept))
    IN  ( /\ evaluated.fn \in {"ultraCleanContent",
                               "DockerManager.ultraCleanContent"}
          /\ evaluated.filePath = packageJson
          /\ ~JsonParses(parsed) )
        => /\ evaluated.result = DefaultPackageJson
           /\ JsonParses(evaluated.result)

\* C20: for a repaired path (one fixIncompleteExtension leaves as it is)
\* that does not end in ".json", the cleaned content is the filtered and
\* normalized input: it is neither reformatted as JSON nor replaced by a
\* default.
C20_ManifestHandlingOnlyForJson ==
    LET kept == IF evaluated.fn = "ultraCleanContent"
                THEN KeptByIndex ELSE KeptByDockerManager
    IN  ( /\ evaluated.fn \in {"ultraCleanContent",
                               "DockerManager.ultraCleanContent"}
          /\ fixIncompleteExtension(evaluated.filePath) = evaluated.filePath
          /\ ~EndsWith(evaluated.filePath, <<".", "j", "s", "o", "n">>) )
        => evaluated.result =
               NormalizeLineEndings(Filter(evaluated.content, kept))

\* C21: cleanupDuplicateFiles never deletes a file whose extension is one of
\* the legitimate short extensions (c, r, go, h, m, d, s, f, v, l, y): such
\* a file is still there when the cleanup returns.
C21_ValidShortExtensionsKept ==
    [][\A c \in calls :
          (c.pc = "cleanup" /\ c.id \in Returned)
          => \A dir \in DOMAIN hostFiles :
                 \A f \in DOMAIN hostFiles[dir] :
                     Extension(Basename(f)) \in validSingleExtensions
                         => f \in DOMAIN hostFiles'[dir]]_vars

\* C22: a save is acknowledged with success = true only by a file:save call
\* whose archive was taken by the runtime (putArchive resolved, so the call
\* had moved on to the sync, the cleanup or the handler's own sync); a save
\* for a session without a registered sandbox is never acknowledged so.
C22_SavedOnlyAfterInjection ==
    [][\A sock \in DOMAIN closure :
          <<sock, SavedEvent(TRUE)>> \in emitted' \ emitted
          => \E c \in calls :
                 /\ c.op = "file:save" /\ c.sock = sock
                 /\ c.id \in Returned
                 /\ c.pc \in {"sync", "cleanup", "saveSync"}]_vars

\* C23: readFileFromContainer goes by the exit code of cat: when the file
\* is there (exit code 0) the read resolves, whatever the text; 'File not
\* found' is reported only for a file that is not there; and a failure of
\* the runtime is reported as an error other than 'File not found'.
C23_ReadClassifiedByExitCode ==
    [][\A c \in calls :
          (c.pc = "cat" /\ c.id \in Returned)
          => LET there == /\ Running(c.container)
                          /\ c.path \in DOMAIN Workspace(c.container)
                          /\ ~Workspace(c.container)[c.path].dir
                 result == finished'[c.id]
             IN  /\ there => result.ok
                 /\ (~result.ok /\ result.content = FileNotFound) => ~there
                 /\ ~Running(c.container)
                    => ~result.ok /\ result.content # FileNotFound]_vars

\* C24: createDirectory, renamePath and deletePath report a failure whenever
\* their command (mkdir -p, mv, rm -rf) exits nonzero: none of them resolves
\* for a command that failed.
C24_FailedCommandReported ==
    [][\A c \in calls :
          (c.pc = "exec" /\ c.id \in Returned /\ Running(c.container))
          => LET files == Workspace(c.container)
                 failed == \/ c.op = "createDirectory" /\ MkdirFails(files, c.path)
                           \/ c.op = "renamePath" /\ MvFails(files, c.path, c.arg)
                           \/ c.op = "deletePath" /\ RmFails(c.path)
             IN  failed => ~finished'[c.id].ok]_vars

\* C30: in every writeFileToContainer call the sync exec is issued after the
\* archive injection has returned and before the call reports success: a
\* write gets its successful outcome only from the sync step on, and reaches
\* the sync step only from a running injection.
C30_SyncBetweenInjectionAndSuccess ==
    [][/\ \A id \in DOMAIN finished' \ DOMAIN finished :
              (finished'[id].ok /\ finished'[id].op \in
                   {"file:change", "file:save", "writeFileToContainer"})
              => \E c \in calls :
                     c.id = id /\ c.pc \in {"sync", "cleanup", "saveSync"}
       /\ \A c \in calls' :
              (c.pc = "sync" /\ c \notin calls)
              => \E b \in calls : b.id = c.id /\ b.pc = "putArchive"]_vars

\* C26: no client connection is accepted until buildUserImage has succeeded
\* and the sweep of cleanupOldContainers has finished; if the build of the
\* image fails the process aborts: it never listens, accepts a connection or
\* creates a sandbox.
C26_ListensOnlyAfterBuildAndSweep ==
    (phase.step = "listening" \/ DOMAIN closure # {} \/ calls # {})
    => phase.image = "built"

\* C27: for every list of raw "name|kind" entries with kind "d" or "f",
\* toTree returns a map whose keys are exactly the distinct names in the list,
\* each directory mapped to an empty map and each file to null (names listed
\* with both kinds aside, for which the two cannot both be).
C27_TreeOfDistinctNames ==
    evaluated.fn = "toTree"
    => LET items == evaluated.items
           Entries == {items[i] : i \in 1..Len(items)}
           NameOf(e) == SubSeq(e, 1, Len(e) - 2)
           KindOf(e) == e[Len(e)]
           tree == evaluated.result
       IN  /\ DOMAIN tree = {NameOf(e) : e \in Entries}
           /\ \A e \in Entries :
                  (\A o \in Entries : NameOf(o) = NameOf(e) => KindOf(o) = KindOf(e))
                  => tree[NameOf(e)] = IF KindOf(e) = "d" THEN EmptyTree ELSE Null

\* The operations of the HTTP routes, as requested and as calls of
\* DockerManager.
HttpOps ==
    {"getTree", "getFileContent", "createPath", "renamePath", "deletePath",
     "getDirectory", "readFileFromContainer", "createDirectory",
     "listDirectory"}

\* C25: a request of getTree, getFileContent, createPath, renamePath,
\* deletePath or getDirectory with an id that is not in the session registry
\* is answered with the caller error 'User session not found' at once: no
\* call into the runtime is started (so none is retried) and no state of the
\* server, the runtime or the workspaces changes.
C25_UnknownSessionRejected ==
    [][nextCall' # nextCall
       => LET started == {c \in calls' : c.id = nextCall}
                             \cup (IF nextCall \in DOMAIN finished'
                                   THEN {finished'[nextCall]} ELSE {})
          IN  \A r \in started :
                  (r.op \in HttpOps /\ r.caller \in {"http", "index"}
                                    /\ r.sock \notin DOMAIN socketUserMap)
                  => /\ nextCall \in DOMAIN finished'
                     /\ ~finished'[nextCall].ok
                     /\ finished'[nextCall].content = UserSessionNotFound
                     /\ calls' = calls
                     /\ UNCHANGED <<socketUserMap, userSocketMap, connected,
                                    closure, emitted, userContainers, userShells,
                                    containers, shellEnded, hostFiles, terminal,
                                    timers, phase>>]_vars

\* C25 witness: each of the six operations has been requested with an id that
\* is not registered and answered, one of them after the session of the id
\* was over.
C25_UnknownIdAnswered ==
    /\ \E id \in DOMAIN finished :
           /\ finished[id].content = UserSessionNotFound
           /\ finished[id].op = "createPath"
           /\ finished[id].sock \in DOMAIN closure
    /\ \E id \in DOMAIN finished :
           /\ finished[id].content = UserSessionNotFound
           /\ finished[id].op = "getDirectory"

\* The directory a path lies in.
DirectoryOf(path) ==
    IF Includes(path, <<"/">>)
    THEN SubSeq(path, 1, Len(path) - Len(Basename(path)) - 1)
    ELSE <<>>

\* C29: for a ready session, createPath(name, "directory", parentPath = p)
\* succeeds even when p does not exist yet, and a getDirectory(p) that
\* follows, the directory being there, reports name as a directory.
C29_CreatedDirectoryListed ==
    [][\A c \in calls :
          /\ (/\ c.op = "createDirectory" /\ c.caller = "http" /\ c.pc = "exec"
              /\ closure[c.sock].containerReady
              /\ Running(c.container)
              /\ ~Exists(Workspace(c.container), DirectoryOf(c.path))
              /\ c.id \in DOMAIN finished')
             => finished'[c.id].ok
          /\ (/\ c.op = "listDirectory" /\ c.pc = "exec"
              /\ c.id \in Returned
              /\ closure[c.sock].containerReady
              /\ Running(c.container))
             => \A id \in DOMAIN finished :
                    (/\ finished[id].op = "createDirectory"
                     /\ finished[id].caller = "http"
                     /\ finished[id].ok
                     /\ finished[id].user = c.user
                     /\ DirectoryOf(finished[id].path) = c.path
                     /\ IsDirectory(Workspace(c.container), finished[id].path))
                    => /\ finished'[c.id].ok
                       /\ Item(Basename(finished[id].path), "d")
                              \in finished'[c.id].items]_vars

\* The archive of a write of the client on sock has been injected:
\* writeFileToContainer is about to return or has returned.
Injected(sock) ==
    \E c \in calls : /\ c.sock = sock
                     /\ c.op \in {"file:change", "file:save"}
                     /\ c.pc \in {"sync", "cleanup", "saveSync"}

C31_SweepRemovesEveryOldSandbox ==
    [][(phase.step = "sweeping" /\ phase'.step = "listening")
       => \A c \in DOMAIN containers : containers'[c].state = "removed"]_vars

\* C32: the one archive entry a writeFileToContainer call packs and injects
\* is named by the repaired path with all its leading separators stripped: the
\* name never begins with "/".
C32_EntryNamedByRelativePath ==
    \A c \in calls :
        c.pc = "putArchive"
        => /\ ~StartsWith(c.path, <<"/">>)
           /\ c.path = StripLeadingSlashes(fixIncompleteExtension(c.arg))

\* C33: listFiles and listDirectory return exactly the entries of the
\* directory listed that are not hidden, are not named as the root is and are
\* not truncated-extension artifacts outside the allow-list, each tagged "d"
\* exactly when it is a directory, the two by the same rules.
C33_ListingsKeepTheSameEntries ==
    [][\A c \in calls :
          (/\ c.op \in {"listDirectory", "getTree"} /\ c.pc = "exec"
           /\ c.id \in Returned
           /\ Running(c.container))
          => LET files == Workspace(c.container)
                 Kind(n) == IF IsDirectory(files, IF c.path = <<>> THEN n
                                                  ELSE c.path \o <<"/">> \o n)
                            THEN "d" ELSE "f"
             IN  finished'[c.id].items =
                     {Item(n, Kind(n)) :
                         n \in {m \in Children(files, c.path) :
                                   Listed(m) /\ m # workspace}}]_vars

\* C34: fixIncompleteExtension is idempotent: the path repaired in the
\* routing layer and repaired again inside DockerManager is the path repaired
\* once, so both layers name the same file.
C34_RepairIsIdempotent ==
    evaluated.fn = "fixIncompleteExtension twice"
        => evaluated.again = evaluated.result

\* cleanupDuplicateFiles: the fragments its find commands look for.
incompleteExtensions ==
    { <<".", "j">>, <<".", "t">>, <<".", "p">>, <<".", "c">>, <<".", "h">>,
      <<".", "j", "a">>, <<".", "p", "h">>, <<".", "r">>, <<".", "g">>,
      <<".", "r", "u">>, <<".", "s", "w">>, <<".", "k">>, <<".", "s">>,
      <<".", "h", "t">>, <<".", "c", "s">>, <<".", "j", "s", "o">>,
      <<".", "x">>, <<".", "m">>, <<".", "y">>, <<".", "d", "o">> }

\* C35: cleanupDuplicateFiles deletes nothing but regular files whose name
\* ends in one of the truncated-extension fragments: every directory and
\* every file of another name is in the workspace afterwards as it was, and
\* nothing is added or rewritten.
C35_CleanupDeletesOnlyFragmentFiles ==
    [][\A c \in calls :
          (c.pc = "cleanup" /\ c \notin calls')
          => /\ DOMAIN hostFiles' = DOMAIN hostFiles
             /\ \A b \in DOMAIN hostFiles :
                  /\ DOMAIN hostFiles'[b] \subseteq DOMAIN hostFiles[b]
                  /\ \A g \in DOMAIN hostFiles[b] :
                       /\ g \in DOMAIN hostFiles'[b]
                            => hostFiles'[b][g] = hostFiles[b][g]
                       /\ (\/ hostFiles[b][g].dir
                           \/ \A ext \in incompleteExtensions :
                                 ~EndsWith(Basename(g), ext))
                            => g \in DOMAIN hostFiles'[b]]_vars

\* A write was handled, its cleanup done, in a workspace in which the shell
\* had created a file of a canonical extension and a directory named as a
\* truncated file is: both are still there next to the file written.
C35_CanonicalFilesKept ==
    \E id \in DOMAIN finished :
        /\ finished[id].op = "file:change"
        /\ finished[id].ok
        /\ \E b \in DOMAIN hostFiles :
              /\ aGo \in DOMAIN hostFiles[b]
              /\ srcJ \in DOMAIN hostFiles[b] /\ hostFiles[b][srcJ].dir
              /\ <<"a", ".", "j", "s">> \in DOMAIN hostFiles[b]
              /\ <<"a", ".", "j">> \notin DOMAIN hostFiles[b]
              /\ aC \notin DOMAIN hostFiles[b]

\* C36: a tree-changed notification caused by the file activity of one
\* session goes to the client of that session only: the refresh of a write
\* is emitted to the socket the write came from, and the refresh the watcher
\* emits for a path reaches no client of a session other than the one whose
\* sandbox wrote the path.
C36_RefreshOnlyToTheSessionThatWrote ==
    [][/\ \A t \in timers \ timers' :
            emitted' \ emitted \subseteq {<<t.sock, "file:refresh">>}
       /\ (evaluated.refreshTimeout # {} /\ evaluated'.refreshTimeout = {})
            => \A w \in evaluated.refreshTimeout :
                 \A e \in emitted' \ emitted :
                    closure[e[1]].userId = containers[w.by].name]_vars

\* C37: a runtime call of one session that never returns blocks that
\* session at most: every operation of another session, whose own runtime
\* calls return, completes.
C37_OtherSessionsComplete ==
    \A id \in 1..(MaxConnections + MaxBusyEvents) :
        (\E c \in calls : c.id = id /\ c.user # HungUser)
            ~> (id \in DOMAIN finished)

\* A write of the first session hangs in putArchive while a write the other
\* session sent later has completed.
C37_CompletedBesideHungCall ==
    \E c \in calls :
        /\ c.user = HungUser /\ c.op = "file:change" /\ c.pc = "putArchive"
        /\ \E id \in DOMAIN finished :
              /\ id > c.id
              /\ finished[id].user # HungUser
              /\ finished[id].op = "file:change"
              /\ finished[id].ok

\* C38: CloudStorageService.initialize makes at most 5 connection attempts
\* and none after the first that succeeds, never throws and always returns;
\* when it has returned, isConnected is true only if a connection attempt
\* succeeded and neither the bucket check nor the bucket creation failed.
C38_InitializeBoundedAndHonest ==
    /\ [](/\ evaluated.attempts <= 5
          /\ evaluated.listed => evaluated.pc \notin {"listBuckets", "wait"}
          /\ evaluated.pc # "thrown"
          /\ (evaluated.pc = "returned" /\ evaluated.isConnected)
                => (evaluated.listed /\ ~evaluated.bucketFailed))
    /\ (evaluated.pc = "listBuckets") ~> (evaluated.pc = "returned")

\* initialize has returned after the bucket check failed, on a connection
\* that its fifth attempt had made.
C38_LastAttemptThenBucketFailure ==
    /\ evaluated.fn = "CloudStorageService.initialize"
    /\ evaluated.pc = "returned"
    /\ evaluated.attempts = 5
    /\ evaluated.listed
    /\ evaluated.bucketFailed
    /\ ~evaluated.isConnected

ProjectOps ==
    {"getProject", "updateProject", "deleteProject", "saveFileMetadata",
     "getFileMetadata", "deleteFileMetadata"}

\* C39: every ProjectService operation addressed to a project verifies the
\* ownership first: a call that names a project that does not exist or is
\* another user's fails with the not-found / access-denied error and leaves
\* every project record and every file record as it was.
C39_ForeignProjectUntouched ==
    [][(/\ evaluated.fn = "ProjectService"
        /\ evaluated'.last.op \in ProjectOps
        /\ \/ evaluated'.last.projectId \notin DOMAIN evaluated.projects
           \/ evaluated.projects[evaluated'.last.projectId].user
                 # evaluated'.last.userId)
       => /\ evaluated'.last.error = AccessDenied
          /\ evaluated'.projects = evaluated.projects
          /\ evaluated'.files = evaluated.files]_vars

\* deleteProject was called for a project with a file record by a user who
\* is not its owner: the call failed, the project and the record are there.
C39_ForeignDeleteRefused ==
    /\ evaluated.fn = "ProjectService"
    /\ evaluated.last.op = "deleteProject"
    /\ evaluated.last.error = AccessDenied
    /\ evaluated.last.projectId \in DOMAIN evaluated.projects
    /\ evaluated.projects[evaluated.last.projectId].user # evaluated.last.userId
    /\ \E k \in DOMAIN evaluated.files : k[1] = evaluated.last.projectId

\* C10: no two operations of one session are in flight against the runtime at
\* the same time.
C10_OneOperationPerSession ==
    \A c \in calls : \A d \in calls : c.user = d.user => c = d

=============================================================================
